---------------------------- MODULE Spec2Model ----------------------------
(***************************************************************************)
(* A model of the request-dispatch core of ignyx (src/src/*.rs):           *)
(*   - router.rs      Method::from_str, Router::insert, Router::find       *)
(*   - server.rs      Server::add_route, Server::run, handle_request and   *)
(*                    the inline revision of call_python_handler           *)
(*   - handler.rs     call_python_handler (the revision that uses          *)
(*     middleware.rs  execute_before_middlewares/execute_after_middlewares)*)
(*   - websocket.rs   handle_websocket: the channel bridge                 *)
(*                                                                         *)
(* The module holds several specifications over one set of variables; each *)
(* specification moves the variables of one subsystem and leaves the rest  *)
(* at their initial values.                                                *)
(*   SpecRouter    a free-standing Router driven by insert calls           *)
(*   SpecServer    add_route calls followed by Server::run                 *)
(*   SpecBind      argument binding over handler signatures and requests   *)
(*   SpecDispatch  a connection task dispatching requests through the      *)
(*                 middleware chain, the handler and the response builder  *)
(*   SpecWS        one WebSocket session; FairSpecWS adds its scheduling   *)
(*   SpecWSInbound, SpecWSOutbound  one WebSocket session whose client,    *)
(*                 or whose handler, sends several distinct messages       *)
(*   SpecLoop      dispatches passing the thread-local event-loop slot     *)
(*   SpecGil       requests contending for the interpreter lock            *)
(*   SpecUpgrade   a WebSocket upgrade request and the session it starts   *)
(*   SpecBackground  responses and the background tasks scheduled with them*)
(*   SpecTask      one request from its dispatch to its background task    *)
(*   SpecBodyRead  matched requests from arrival to the handler call       *)
(*   SpecRequest   requests arriving at a running server: upgrade check,   *)
(*                 OPTIONS branch, route lookup, not-found response        *)
(*   SpecResult    handler results parsed into status, headers and body    *)
(*   SpecShutdown  the accept loop of a running server and an interrupt    *)
(***************************************************************************)
EXTENDS Integers, Sequences, FiniteSets, TLC

VARIABLES
    \* ---- a free-standing Router (router.rs) ----
    router,        \* [trees, handler_count]
    inserted,      \* history of insert calls: <<[method, pattern, ret]>>
    \* ---- Server (server.rs) ----
    routes,        \* Server.routes: <<[method, path, handler]>>
    addResult,     \* what the last add_route call returned
    srvPhase,      \* "configuring" | "running" | "failed"
    stRouter,      \* ServerState.router
    handlers,      \* ServerState.handlers
    interrupted,   \* an interrupt signal was delivered to the process
    conns,         \* per connection: "none" | "open" | "in_flight" | "closed"
    \* ---- one connection task dispatching routed requests ----
    rev,           \* which call_python_handler runs: "handler_rs" | "server_rs"
    middlewares,   \* ServerState.middlewares: <<[before, after, on_error]>>
    sig,           \* the HandlerSignature of the matched route
    req,           \* the request being dispatched
    pc,            \* position of the connection task / dispatch
    idx,           \* position of the middleware loop that is running
    ctx,           \* py_request_wrapped: the request object handed around
    kwargs,        \* call_kwargs_opt
    injected_task, \* injected_task
    err,           \* the error the handler call raised
    result,        \* result: the value being turned into a response
    ret,           \* what call_python_handler returned
    response,      \* the response handle_request returned for this request
    beforeErr,     \* the first before_request hook that failed (0: none)
    connAlive,     \* the connection task has not panicked
    log,           \* calls into handler and middleware code, in order
    \* ---- one WebSocket session (websocket.rs) ----
    clientOpen,    \* the client has not closed its end
    inbound,       \* frames the client sent that ws_read has not yielded yet
    clientSent,    \* every data frame the client has sent, in order
    recvQ,         \* the recv channel: texts queued for the handler
    recvSenders,   \* live senders of the recv channel
    sendQ,         \* the send channel: texts queued for the write task
    sendSenders,   \* live senders of the send channel
    closeQ,        \* the close channel: close codes queued for the write task
    closeSenders,  \* live senders of the close channel
    writer,        \* write_task: "select" | "sending" | "done" | "aborted"
    held,          \* the text write_task took from the send channel
    reader,        \* read_task: "running" | "done" | "aborted"
    hState,        \* the handler: "running" | "in_recv" | "returned"
    hHist,         \* the calls the handler has made, with their outcomes
    wire,          \* frames written to the client, in order
    session,       \* the session task: "awaiting" | "dropped" | "done"
    \* ---- the runtime around the dispatches ----
    loopSlot,      \* ASYNCIO_LOOP of each blocking thread: None | Some(loop)
    loopsMade,     \* event loops created so far
    loopLog,       \* the dispatches that went through a loop-slot site
    gil,           \* the request whose code holds the interpreter lock (0: free)
    reqs,          \* per request: its kind, the thread it runs on, its position
    upResp,        \* what handle_websocket returned for the upgrade request
    upSent,        \* the 101 response has been written to the client
    upSession,     \* the spawned session task: "none" | "awaiting_upgrade" | ..
    bg,            \* per answered request: response progress and background task
    arrived,       \* the matched request as hyper delivered it
    bodyRead       \* handle_request collected the request body

routerVars == <<router, inserted>>
serverVars == <<routes, addResult, srvPhase, stRouter, handlers, interrupted, conns>>
configVars == <<rev, middlewares, sig>>
dispatchVars == <<req, pc, idx, ctx, kwargs, injected_task, err, result, ret,
                  response, beforeErr, connAlive, log>>
wsVars == <<clientOpen, inbound, clientSent, recvQ, recvSenders, sendQ, sendSenders, closeQ,
            closeSenders, writer, held, reader, hState, hHist, wire, session>>
rtVars == <<loopSlot, loopsMade, loopLog, gil, reqs, upResp, upSent, upSession, bg,
            arrived, bodyRead>>
vars == <<router, inserted, routes, addResult, srvPhase, stRouter, handlers,
          interrupted, conns,
          rev, middlewares, sig, req, pc, idx, ctx, kwargs, injected_task,
          err, result, ret, response, beforeErr, connAlive, log,
          clientOpen, inbound, clientSent, recvQ, recvSenders, sendQ, sendSenders,
          closeQ,
          closeSenders, writer, held, reader, hState, hHist, wire, session,
          loopSlot, loopsMade, loopLog, gil, reqs, upResp, upSent, upSession, bg,
          arrived, bodyRead>>

(***************************************************************************)
(* Bounds of the model.                                                    *)
(***************************************************************************)
MaxInserts == 3     \* insert calls on the free-standing Router
MaxSegs == 2        \* segments in a route pattern or a request path
MaxRoutes == 2      \* add_route calls before Server::run
MaxMw == 2          \* registered middlewares
MaxParams == 2      \* parameters of a handler signature in SpecBind
MaxEntries == 3     \* path, dependency, form and query entries of a request
MaxClientMsgs == 1  \* text frames the WebSocket client sends
MaxHandlerOps == 3  \* calls the WebSocket handler makes before it returns
MaxLoopSteps == 3   \* dispatches that pass a loop-slot site
MaxReqs == 2        \* requests in flight that want the interpreter lock
MaxBgRequests == 2  \* answered requests whose background task is tracked
MaxChunks == 2      \* writes a response body takes to reach the client
MaxConns == 3       \* connections the listener accepts
MaxFrames == 2      \* data frames the client sends in SpecWSInbound/Outbound

(***************************************************************************)
(* Option values.                                                          *)
(***************************************************************************)
None == [some |-> FALSE]
Some(v) == [some |-> TRUE, val |-> v]

(***************************************************************************)
(* router.rs: Method                                                       *)
(***************************************************************************)
Method == {"Get", "Post", "Put", "Delete", "Patch", "Head", "Options"}

\* The method strings callers pass in this model: supported ones in several
\* spellings, and unsupported ones.
MethodStrings == {"GET", "get", "Post", "TRACE"}

\* The methods routes are registered under in this model; lookups range
\* over every Method.
RouteMethods == {"Get", "Post"}

\* str::to_uppercase on the strings above.
to_uppercase(s) ==
    CASE s = "get" -> "GET"
      [] s = "Post" -> "POST"
      [] OTHER -> s

\* (a lookup of the method name that compares it as it was written)
MethodFromStrExact(s) ==
    CASE s = "GET" -> Some("Get")
      [] s = "POST" -> Some("Post")
      [] OTHER -> None

\* Method::from_str
MethodFromStr(s) ==
    LET u == to_uppercase(s) IN
    CASE u = "GET" -> Some("Get")
      [] u = "POST" -> Some("Post")
      [] u = "PUT" -> Some("Put")
      [] u = "DELETE" -> Some("Delete")
      [] u = "PATCH" -> Some("Patch")
      [] u = "HEAD" -> Some("Head")
      [] u = "OPTIONS" -> Some("Options")
      [] OTHER -> None

(***************************************************************************)
(* Route patterns and request paths.  A pattern is a sequence of segments, *)
(* each a static text or a named parameter {name}; a path is a sequence of *)
(* segment texts ("/users/42" is <<"users", "42">>, "/" is <<>>).          *)
(***************************************************************************)
Static(t) == [kind |-> "static", text |-> t]
Param(n) == [kind |-> "param", text |-> n]

SegTexts == {"users", "42"}
PatternSegs == {Static("users"), Param("id")}

SeqsUpTo(S, n) == UNION {[1..k -> S] : k \in 0..n}

ParamPositions(pat) == {i \in 1..Len(pat) : pat[i].kind = "param"}
ParamNames(pat) == {pat[i].text : i \in ParamPositions(pat)}

\* Patterns the matcher accepts: no parameter name used twice.
Patterns ==
    {p \in SeqsUpTo(PatternSegs, MaxSegs) :
        Cardinality(ParamPositions(p)) = Cardinality(ParamNames(p))}
Paths == SeqsUpTo(SegTexts, MaxSegs)

(***************************************************************************)
(* The per-method matcher (matchit::Router<usize>) as router.rs uses it:   *)
(* insert(path, value) and at(path).  A tree is the set of its entries.    *)
(***************************************************************************)
Shape(pat) ==
    [i \in 1..Len(pat) |-> IF pat[i].kind = "param" THEN Param("*") ELSE pat[i]]

\* insert fails when the tree already holds a route of the same shape
TreeConflict(tree, pat) == \E e \in tree : Shape(e.pattern) = Shape(pat)

SegMatches(ps, s) == ps.kind = "param" \/ ps.text = s

PatMatches(pat, path) ==
    /\ Len(pat) = Len(path)
    /\ \A i \in 1..Len(pat) : SegMatches(pat[i], path[i])

\* the named-segment bindings of pat on path
Bindings(pat, path) ==
    [n \in ParamNames(pat) |->
        path[CHOOSE i \in ParamPositions(pat) : pat[i].text = n]]

\* a static segment is tried before a parameter, leftmost segment first
Prefer(a, b) ==
    \E i \in 1..Len(a) :
        /\ a[i].kind = "static" /\ b[i].kind = "param"
        /\ \A j \in 1..(i - 1) : a[j].kind = b[j].kind

TreeAt(tree, path) ==
    LET cands == {e \in tree : PatMatches(e.pattern, path)} IN
    IF cands = {} THEN None
    ELSE LET best == CHOOSE e \in cands :
                        \A f \in cands \ {e} : Prefer(e.pattern, f.pattern)
         IN Some([value |-> best.value,
                  params |-> Bindings(best.pattern, path)])

(***************************************************************************)
(* router.rs: Router                                                       *)
(***************************************************************************)
RouterNew == [trees |-> [m \in Method |-> {}], handler_count |-> 0]

\* Router::insert: the index is taken and the counter advanced before the
\* tree insertion is tried.  Returns the router and Ok(index) or Err.
\* (an index that counts the routes the trees hold)
InsertIndexByTreeSize(r) == Cardinality(UNION {r.trees[mm] : mm \in Method})

InsertIndex(r) == r.handler_count

RouterInsert(r, method, pat) ==
    LET index == InsertIndex(r)
        counted == [r EXCEPT !.handler_count = r.handler_count + 1]
    IN IF TreeConflict(r.trees[method], pat)
       THEN [router |-> counted, ret |-> None]
       ELSE [router |-> [counted EXCEPT !.trees[method] =
                            @ \cup {[pattern |-> pat, value |-> index]}],
             ret |-> Some(index)]

\* (a lookup that consults the trees of every method)
FindTreeAnyMethod(r, method) == UNION {r.trees[m] : m \in Method}

\* the tree Router::find consults
FindTree(r, method) == r.trees[method]

\* Router::find
RouterFind(r, method, path) ==
    LET matched == TreeAt(FindTree(r, method), path) IN
    IF ~matched.some THEN None
    ELSE Some([handler_index |-> matched.val.value,
               params |-> matched.val.params])

(***************************************************************************)
(* SpecRouter: a Router driven by insert calls, as in router.rs's tests.   *)
(***************************************************************************)
RouterIdle == router = RouterNew /\ inserted = <<>>

Insert(method, pat) ==
    /\ Len(inserted) < MaxInserts
    /\ LET r == RouterInsert(router, method, pat) IN
        /\ router' = r.router
        /\ inserted' = Append(inserted,
                [method |-> method, pattern |-> pat, ret |-> r.ret])
    /\ UNCHANGED <<serverVars, configVars, dispatchVars, wsVars, rtVars>>

(***************************************************************************)
(* server.rs: Server::add_route and Server::run                            *)
(***************************************************************************)
\* Handlers are told apart by identity: the k-th handler object passed to
\* add_route is k.  NoHandler is py.None() in a padding HandlerSignature.
NextHandlerId == Len(routes) + 1
NoHandler == 0

ServerIdle ==
    /\ routes = <<>>
    /\ addResult = "none"
    /\ srvPhase = "configuring"
    /\ stRouter = RouterNew
    /\ handlers = <<>>
    /\ interrupted = FALSE
    /\ conns = [c \in 1..MaxConns |-> "none"]

\* Server::add_route
AddRoute(methodStr, path, handler) ==
    /\ srvPhase = "configuring"
    /\ Len(routes) < MaxRoutes
    /\ LET method_enum == MethodFromStr(methodStr) IN
        IF ~method_enum.some
        THEN /\ addResult' = "Err"
             /\ UNCHANGED routes
        ELSE /\ routes' = Append(routes, [method |-> method_enum.val,
                                          path |-> path,
                                          handler |-> handler])
             /\ addResult' = "Ok"
    /\ UNCHANGED <<srvPhase, stRouter, handlers, interrupted, conns>>
    /\ UNCHANGED <<routerVars, configVars, dispatchVars, wsVars, rtVars>>

\* the padding entry pushed while handlers.len() <= index
PaddingSignature == [handler |-> NoHandler]

\* the HandlerSignature built from a route entry
SignatureOf(entry) == [handler |-> entry.handler]

Pad(hs, index) ==
    hs \o [k \in 1..((index + 1) - Len(hs)) |-> PaddingSignature]

\* (a store that always lands in the first slot)
StoreSlotFirst(index) == 1

\* the position of handlers that receives the signature of route `index`
StoreSlot(index) == index + 1

\* The loop of Server::run over self.routes, from entry k on.
RECURSIVE RunLoop(_, _, _, _)
RunLoop(rs, k, r, hs) ==
    IF k > Len(rs) THEN [ok |-> TRUE, router |-> r, handlers |-> hs]
    ELSE LET ins == RouterInsert(r, rs[k].method, rs[k].path) IN
         IF ~ins.ret.some
         THEN [ok |-> FALSE, router |-> ins.router, handlers |-> hs]
         ELSE LET index == ins.ret.val
                  padded == IF Len(hs) <= index THEN Pad(hs, index) ELSE hs
              IN RunLoop(rs, k + 1, ins.router,
                         [padded EXCEPT ![StoreSlot(index)] = SignatureOf(rs[k])])

\* Server::run up to the point where the server state is built
Run ==
    /\ srvPhase = "configuring"
    /\ LET res == RunLoop(routes, 1, RouterNew, <<>>) IN
        IF res.ok
        THEN /\ srvPhase' = "running"
             /\ stRouter' = res.router
             /\ handlers' = res.handlers
        ELSE /\ srvPhase' = "failed"
             /\ UNCHANGED <<stRouter, handlers>>
    /\ UNCHANGED <<routes, addResult, interrupted, conns>>
    /\ UNCHANGED <<routerVars, configVars, dispatchVars, wsVars, rtVars>>

(***************************************************************************)
(* Dispatch of one routed request: handle_request from the point where the *)
(* route is matched, and call_python_handler.  src/ holds two revisions of *)
(* call_python_handler: handler.rs, which runs the hooks through           *)
(* middleware.rs, and the one inline in server.rs.  rev says which one the *)
(* server runs; the steps that differ are separate actions.                *)
(***************************************************************************)
Revs == {"handler_rs", "server_rs"}

\* A middleware object is known by the hooks it has (getattr succeeds).
MwKinds == [before : BOOLEAN, after : BOOLEAN, on_error : BOOLEAN]

EmptyMap == [k \in {} |-> 0]
Merge(f, g) ==
    [k \in (DOMAIN f) \cup (DOMAIN g) |-> IF k \in DOMAIN g THEN g[k] ELSE f[k]]
PartialFns(K, V) == UNION {[D -> V] : D \in SUBSET K}

\* ---- handler signatures (HandlerSignature) ----
ParamNameSet == {"id", "task", "body", "request"}

\* the annotations a parameter of each name carries in this model
AllowedTypes(n) ==
    CASE n = "id" -> {"int"}
      [] n = "body" -> {"Model"}
      [] n = "task" -> {"BackgroundTask", "UploadFile"}
      [] OTHER -> {}

TypeMaps(N) ==
    {T \in PartialFns(N, {"int", "Model", "BackgroundTask", "UploadFile"}) :
        \A n \in DOMAIN T : T[n] \in AllowedTypes(n)}

SigsOver(N) ==
    {[param_names |-> N, param_types |-> T, is_async |-> a, has_depends |-> d] :
        T \in TypeMaps(N), a \in BOOLEAN, d \in {x \in BOOLEAN : x => N # {}}}

\* server.rs Server::run: the body annotation is kept when it is a BaseModel
pydantic_body_model(s) ==
    "body" \in DOMAIN s.param_types /\ s.param_types["body"] = "Model"

\* ---- requests ----
RawTexts == {"42", "abc"}

\* Python values bound to parameters: a type tag, a content and, for a
\* request object, the hook that produced it.
V(t, v) == [t |-> t, v |-> v, by |-> 0]
Text(raw) == V("str", raw)
PyNone == V("NoneType", "None")

\* int(text): succeeds on the decimal texts of the model
\* (a conversion that accepts every text)
ParseAnyText(t) == Some(V("int", t))
ParseInt(t) == IF t = "42" THEN Some(V("int", t)) ELSE None

\* annotation(value): the declared type called as a one-argument constructor
Coerce(type, raw) ==
    CASE type = "int" -> ParseInt(raw)
      [] OTHER -> None

NoCtx == [kind |-> "absent", by |-> 0]      \* no request object was built
OrigCtx == [kind |-> "request", by |-> 0]   \* the object dispatch built
HookCtx(i) == [kind |-> "request", by |-> i] \* the object hook i returned
PyNoneCtx == [kind |-> "none", by |-> 0]    \* Python's None

needs_request(s) == middlewares # <<>> \/ "request" \in s.param_names

has_query_args(s, r) ==
    \E n \in s.param_names :
        n # "body" /\ n # "request" /\ n \notin DOMAIN r.path_params

\* query_params_map: parsed only when it can be used
query_params_map(s, r) ==
    IF (needs_request(s) \/ has_query_args(s, r)) /\ r.query # EmptyMap
    THEN r.query ELSE EmptyMap

Bound(stage, v) == [src |-> stage, val |-> v]

\* 1. path params: every matched parameter, coerced when annotated
PathCoercionFails(s, r) ==
    \E k \in DOMAIN r.path_params :
        k \in DOMAIN s.param_types
        /\ ~Coerce(s.param_types[k], r.path_params[k]).some

KwPath(s, r) ==
    [k \in DOMAIN r.path_params |->
        IF k \in DOMAIN s.param_types
        THEN Bound("path", Coerce(s.param_types[k], r.path_params[k]).val)
        ELSE Bound("path", Text(r.path_params[k]))]

\* every key the resolver returned is set
MergeResolved(kw, d) ==
    Merge(kw, [k \in DOMAIN d |-> Bound("dep", d[k])])

\* resolved dependencies
KwDeps(s, r, kw) ==
    IF s.has_depends /\ r.deps.some THEN MergeResolved(kw, r.deps.val) ELSE kw

\* 2. request / BackgroundTask / UploadFile / form-field injection, for the
\*    parameter names that are not bound yet
InjectsTask(s, kw, n) ==
    /\ n \in s.param_names /\ n \notin DOMAIN kw /\ n # "request"
    /\ n \in DOMAIN s.param_types /\ s.param_types[n] = "BackgroundTask"

Injection(s, r, c, kw, n) ==
    IF n = "request"
    THEN IF c # NoCtx
         THEN Some(Bound("request", [t |-> "request", v |-> c.kind, by |-> c.by]))
         ELSE None
    ELSE IF n \in DOMAIN s.param_types
    THEN CASE s.param_types[n] = "BackgroundTask" -> Some(Bound("task", V("BackgroundTask", n)))
           [] s.param_types[n] = "UploadFile" /\ n \in r.form_files
                -> Some(Bound("upload", V("UploadFile", n)))
           [] OTHER -> None
    ELSE IF n \in DOMAIN r.form_fields
    THEN Some(Bound("form", Text(r.form_fields[n])))
    ELSE None

KwInject(s, r, c, kw) ==
    LET new == {n \in s.param_names \ DOMAIN kw : Injection(s, r, c, kw, n).some}
    IN Merge(kw, [n \in new |-> Injection(s, r, c, kw, n).val])

\* 3. body injection
needs_body_inject(s, kw) == "body" \in s.param_names /\ "body" \notin DOMAIN kw

\* Outcome of the body stage: "bound" with a value, or the two ways a body
\* that fails validation ends the call.
BodyStage(s, r) ==
    IF r.is_json /\ r.body # "empty"
    THEN IF r.body = "json"
         THEN IF pydantic_body_model(s)
              THEN CASE r.validate = "ok" ->
                          [out |-> "bound", val |-> V("Model", "instance")]
                     [] r.validate = "errors" -> [out |-> "r422", val |-> PyNone]
                     [] OTHER -> [out |-> "err", val |-> PyNone]
              ELSE [out |-> "bound", val |-> V("json", "value")]
         ELSE [out |-> "bound", val |-> PyNone]
    ELSE IF r.body = "binary"
         THEN [out |-> "bound", val |-> PyNone]
         ELSE [out |-> "bound", val |-> V("str", r.body)]

KwBody(s, r, kw) ==
    IF needs_body_inject(s, kw) /\ BodyStage(s, r).out = "bound"
    THEN Merge(kw, [n \in {"body"} |-> Bound("body", BodyStage(s, r).val)])
    ELSE kw

\* 4. query params: declared names that are still unbound; a failed
\*    coercion falls back to the raw text
QueryValue(s, k, v) ==
    IF k \in DOMAIN s.param_types /\ Coerce(s.param_types[k], v).some
    THEN Coerce(s.param_types[k], v).val
    ELSE Text(v)

KwQuery(s, r, kw) ==
    LET q == query_params_map(s, r)
        new == {k \in DOMAIN q : k \in s.param_names /\ k \notin DOMAIN kw}
    IN Merge(kw, [k \in new |-> Bound("query", QueryValue(s, k, q[k]))])

\* The argument-binding part of call_python_handler.
BindArgs(s, r, c) ==
    IF PathCoercionFails(s, r) THEN [out |-> "err", kwargs |-> EmptyMap, task |-> None]
    ELSE LET kw1 == KwPath(s, r)
             kw2 == KwDeps(s, r, kw1)
             kw3 == KwInject(s, r, c, kw2)
             tasks == {n \in s.param_names : InjectsTask(s, kw2, n)}
             task == IF tasks = {} THEN None ELSE Some(CHOOSE n \in tasks : TRUE)
             stage == IF needs_body_inject(s, kw3) THEN BodyStage(s, r).out ELSE "bound"
         IN IF stage # "bound"
            THEN [out |-> stage, kwargs |-> kw3, task |-> task]
            ELSE [out |-> "ok", kwargs |-> KwQuery(s, r, KwBody(s, r, kw3)),
                  task |-> task]

\* ---- what the handler and the hooks hand back ----
\* The values a handler or hook returns, by how result normalisation reads
\* them: a plain value (status 200), a (body, status) tuple with a status
\* the HTTP layer accepts, and one whose status it rejects.
ResultKinds == {"value", "tuple", "tuple_bad_status"}

NoResult == [by |-> "nobody", mw |-> 0, kind |-> "absent"]
ResultOf(who, i, kind) == [by |-> who, mw |-> i, kind |-> kind]

\* the 5-tuple (body, content_type, status, custom_headers, bg_task)
NoHeaders == "none"
NoRet == [kind |-> "absent", status |-> 0, ctype |-> "", body |-> "",
          headers |-> NoHeaders, task |-> None]
ErrRet == [kind |-> "err", status |-> 0, ctype |-> "", body |-> "",
           headers |-> NoHeaders, task |-> None]
OkRet(status, ctype, body, task) ==
    [kind |-> "ok", status |-> status, ctype |-> ctype, body |-> body,
     headers |-> NoHeaders, task |-> task]
WithHeaders(r, h) == [r EXCEPT !.headers = h]

NoResponse == [status |-> 0, ctype |-> "", body |-> "", headers |-> NoHeaders,
               server |-> FALSE]

Event(ev, i, c) == [ev |-> ev, mw |-> i, arg |-> c]

NoReq ==
    [path_params |-> EmptyMap, deps |-> None, form_fields |-> EmptyMap,
     form_files |-> {}, query |-> EmptyMap, is_json |-> FALSE,
     body |-> "empty", validate |-> "ok"]

DispatchIdle ==
    /\ req = NoReq
    /\ pc = "idle"
    /\ idx = 0
    /\ ctx = NoCtx
    /\ kwargs = EmptyMap
    /\ injected_task = None
    /\ err = "none"
    /\ beforeErr = 0
    /\ result = NoResult
    /\ ret = NoRet
    /\ response = NoResponse
    /\ connAlive = TRUE
    /\ log = <<>>

\* handle_request hands a matched request to call_python_handler, which
\* builds the request object when it is needed.
Accept(r) ==
    /\ pc \in {"idle", "responded"}
    /\ connAlive
    /\ req' = r
    /\ kwargs' = EmptyMap
    /\ injected_task' = None
    /\ err' = "none"
    /\ beforeErr' = 0
    /\ result' = NoResult
    /\ ret' = NoRet
    /\ response' = NoResponse
    /\ log' = <<>>
    /\ IF needs_request(sig)
       THEN ctx' = OrigCtx /\ pc' = "before" /\ idx' = 1
       ELSE ctx' = NoCtx /\ pc' = "bind" /\ idx' = 0
    /\ UNCHANGED <<connAlive, configVars, routerVars, serverVars, wsVars>>

Receive(r) == Accept(r) /\ UNCHANGED rtVars

HookOutcomes == {"none", "value", "raise"}

\* middleware.rs execute_before_middlewares, one middleware per step, as
\* handler.rs calls it: a hook that fails ends the call with its error.
BeforeHook ==
    /\ pc = "before" /\ rev = "handler_rs"
    /\ IF idx > Len(middlewares)
       THEN /\ pc' = "bind"
            /\ UNCHANGED <<idx, ctx, ret, beforeErr, log>>
       ELSE IF ~middlewares[idx].before
       THEN /\ idx' = idx + 1
            /\ UNCHANGED <<pc, ctx, ret, beforeErr, log>>
       ELSE \E out \in HookOutcomes :
            /\ log' = Append(log, Event("before", idx, ctx))
            /\ CASE out = "raise" ->
                      /\ ret' = ErrRet /\ pc' = "returned" /\ beforeErr' = idx
                      /\ UNCHANGED <<idx, ctx>>
                 [] out = "value" ->
                      /\ ctx' = HookCtx(idx) /\ idx' = idx + 1
                      /\ UNCHANGED <<pc, ret, beforeErr>>
                 [] OTHER ->
                      /\ idx' = idx + 1
                      /\ UNCHANGED <<pc, ctx, ret, beforeErr>>
    /\ UNCHANGED <<req, kwargs, injected_task, err, result, response, connAlive>>
    /\ UNCHANGED <<configVars, routerVars, serverVars, wsVars, rtVars>>

\* server.rs call_python_handler, "1. Execute Before Middlewares": a failing
\* hook is skipped, and whatever a hook returns becomes the request object.
BeforeHookInline ==
    /\ pc = "before" /\ rev = "server_rs"
    /\ IF idx > Len(middlewares)
       THEN /\ pc' = "bind"
            /\ UNCHANGED <<idx, ctx, beforeErr, log>>
       ELSE IF ~middlewares[idx].before
       THEN /\ idx' = idx + 1
            /\ UNCHANGED <<pc, ctx, beforeErr, log>>
       ELSE \E out \in HookOutcomes :
            /\ log' = Append(log, Event("before", idx, ctx))
            /\ idx' = idx + 1
            /\ pc' = pc
            /\ CASE out = "raise" ->
                      /\ beforeErr' = IF beforeErr = 0 THEN idx ELSE beforeErr
                      /\ ctx' = ctx
                 [] out = "value" -> ctx' = HookCtx(idx) /\ beforeErr' = beforeErr
                 [] OTHER -> ctx' = PyNoneCtx /\ beforeErr' = beforeErr
    /\ UNCHANGED <<req, kwargs, injected_task, err, result, ret, response, connAlive>>
    /\ UNCHANGED <<configVars, routerVars, serverVars, wsVars, rtVars>>

\* a body that fails validation: `return Ok((error_body, .., 422, None, None))`
ValidationFailedKeepsTask(task) ==
    OkRet(422, "application/json", "Validation failed", task)
ValidationFailed(task) == OkRet(422, "application/json", "Validation failed", None)

\* call_python_handler from "Populate kwargs" to "4. Query Params Injection"
Bind ==
    /\ pc = "bind"
    /\ LET b == BindArgs(sig, req, ctx) IN
       CASE b.out = "ok" ->
              /\ kwargs' = b.kwargs
              /\ injected_task' = b.task
              /\ pc' = "call"
              /\ ret' = ret
         [] b.out = "r422" ->
              /\ ret' = ValidationFailed(b.task)
              /\ pc' = "returned"
              /\ UNCHANGED <<kwargs, injected_task>>
         [] OTHER ->
              /\ ret' = ErrRet
              /\ pc' = "returned"
              /\ UNCHANGED <<kwargs, injected_task>>
    /\ UNCHANGED <<req, idx, ctx, err, beforeErr, result, response, connAlive, log>>
    /\ UNCHANGED <<configVars, routerVars, serverVars, wsVars, rtVars>>

ErrorKinds == {"generic", "http"}

\* the coroutine of an asynchronous handler raised e while
\* run_until_complete drove it
Raised(e) == Event("raised", 0, [kind |-> e, by |-> 0])

\* "Call the handler": a synchronous handler returns or raises; an
\* asynchronous one returns its coroutine (or the call itself raises), and
\* the coroutine is run to completion on the thread's loop, where an
\* error leaves call_python_handler through `})?`.
CallHandler ==
    /\ pc = "call"
    /\ \/ \E k \in ResultKinds :
            /\ log' = Append(log, Event("handler", 0, ctx))
            /\ result' = ResultOf("handler", 0, k)
            /\ pc' = "after" /\ idx' = Len(middlewares)
            /\ UNCHANGED <<err, ret>>
       \/ \E e \in ErrorKinds :
            /\ log' = Append(log, Event("handler", 0, ctx))
            /\ err' = e
            /\ pc' = "on_error" /\ idx' = 1
            /\ UNCHANGED <<result, ret>>
       \/ \E e \in ErrorKinds :
            /\ sig.is_async
            /\ log' = log \o <<Event("handler", 0, ctx), Raised(e)>>
            /\ ret' = ErrRet
            /\ pc' = "returned"
            /\ UNCHANGED <<err, result, idx>>
    /\ UNCHANGED <<req, ctx, kwargs, injected_task, beforeErr, response, connAlive>>
    /\ UNCHANGED <<configVars, routerVars, serverVars, wsVars, rtVars>>

\* (a walk that goes on to the next hook after a hook produced a result)
OnErrorNextKeepGoing(i) == IF i < Len(middlewares) THEN "on_error" ELSE "after"

\* where the walk goes after hook i produced a result: break
OnErrorNext(i) == "after"

\* "On Error Middlewares": one middleware per step
OnErrorHook ==
    /\ pc = "on_error"
    /\ idx <= Len(middlewares)
    /\ IF ~(middlewares[idx].on_error /\ ctx # NoCtx)
       THEN /\ idx' = idx + 1
            /\ UNCHANGED <<pc, result, log>>
       ELSE /\ log' = Append(log, Event("on_error", idx, ctx))
            /\ \/ /\ idx' = idx + 1           \* the hook returned None or raised
                  /\ UNCHANGED <<pc, result>>
               \/ \E k \in ResultKinds :      \* the hook returned a result
                    /\ result' = ResultOf("on_error", idx, k)
                    /\ pc' = OnErrorNext(idx)
                    /\ idx' = IF pc' = "after" THEN Len(middlewares) ELSE idx + 1
    /\ UNCHANGED <<req, ctx, kwargs, injected_task, err, beforeErr, ret, response,
                   connAlive>>
    /\ UNCHANGED <<configVars, routerVars, serverVars, wsVars, rtVars>>

\* handler.rs: no hook produced a result: an HTTPException becomes a
\* response, any other error is returned
ErrorUnhandled ==
    /\ pc = "on_error" /\ rev = "handler_rs"
    /\ idx > Len(middlewares)
    /\ ret' = IF err = "http"
              THEN WithHeaders(OkRet(404, "application/json", "detail", None),
                               "exception headers")  \* e.g. HTTPException(404)
              ELSE ErrRet
    /\ pc' = "returned"
    /\ UNCHANGED <<req, idx, ctx, kwargs, injected_task, err, beforeErr, result,
                   response, connAlive, log>>
    /\ UNCHANGED <<configVars, routerVars, serverVars, wsVars, rtVars>>

\* server.rs: no hook produced a result: the error is returned
ErrorUnhandledInline ==
    /\ pc = "on_error" /\ rev = "server_rs"
    /\ idx > Len(middlewares)
    /\ ret' = ErrRet
    /\ pc' = "returned"
    /\ UNCHANGED <<req, idx, ctx, kwargs, injected_task, err, beforeErr, result,
                   response, connAlive, log>>
    /\ UNCHANGED <<configVars, routerVars, serverVars, wsVars, rtVars>>

\* (an after-chain that walks the middlewares in registration order)
AfterOrderForward(k) == k

\* the middleware the k-th step of the after-chain visits: iter().rev()
AfterOrder(k) == Len(middlewares) + 1 - k

\* middleware.rs execute_after_middlewares, one middleware per step, as
\* handler.rs calls it when a request object exists.  idx counts the
\* middlewares still to visit.
AfterHook ==
    /\ pc = "after" /\ rev = "handler_rs"
    /\ LET i == AfterOrder(Len(middlewares) + 1 - idx) IN
       IF idx = 0 \/ ctx = NoCtx
       THEN /\ pc' = "normalize"
            /\ UNCHANGED <<idx, result, ret, log>>
       ELSE IF ~middlewares[i].after
       THEN /\ idx' = idx - 1
            /\ UNCHANGED <<pc, result, ret, log>>
       ELSE /\ log' = Append(log, Event("after", i, ctx))
            /\ \/ /\ idx' = idx - 1                 \* returned None
                  /\ UNCHANGED <<pc, result, ret>>
               \/ \E k \in ResultKinds :            \* returned a result
                    /\ result' = ResultOf("after", i, k)
                    /\ idx' = idx - 1
                    /\ UNCHANGED <<pc, ret>>
               \/ /\ ret' = ErrRet                  \* raised
                  /\ pc' = "returned"
                  /\ UNCHANGED <<idx, result>>
    /\ UNCHANGED <<req, ctx, kwargs, injected_task, err, beforeErr, response, connAlive>>
    /\ UNCHANGED <<configVars, routerVars, serverVars, wsVars, rtVars>>

\* server.rs call_python_handler, "2. Execute After Middlewares": a failing
\* hook is skipped, and whatever a hook returns becomes the result.
AfterHookInline ==
    /\ pc = "after" /\ rev = "server_rs"
    /\ LET i == AfterOrder(Len(middlewares) + 1 - idx) IN
       IF idx = 0
       THEN /\ pc' = "normalize"
            /\ UNCHANGED <<idx, result, log>>
       ELSE IF ~(middlewares[i].after /\ ctx # NoCtx)
       THEN /\ idx' = idx - 1
            /\ UNCHANGED <<pc, result, log>>
       ELSE /\ log' = Append(log, Event("after", i, ctx))
            /\ idx' = idx - 1
            /\ pc' = pc
            /\ \/ result' = result                             \* raised
               \/ result' = ResultOf("after", i, "py_none")    \* returned None
               \/ \E k \in ResultKinds : result' = ResultOf("after", i, k)
    /\ UNCHANGED <<req, ctx, kwargs, injected_task, err, beforeErr, ret, response,
                   connAlive>>
    /\ UNCHANGED <<configVars, routerVars, serverVars, wsVars, rtVars>>

\* "Parse the result": the status a result carries
StatusOf(kind) ==
    CASE kind = "tuple" -> 201               \* e.g. ("created", 201)
      [] kind = "tuple_bad_status" -> 1000    \* e.g. ("x", 1000)
      [] OTHER -> 200

Normalize ==
    /\ pc = "normalize"
    /\ ret' = OkRet(StatusOf(result.kind),
                    IF result.kind = "py_none" THEN "text/plain" ELSE "by content",
                    "result", injected_task)
    /\ pc' = "returned"
    /\ UNCHANGED <<req, idx, ctx, kwargs, injected_task, err, beforeErr, result,
                   response, connAlive, log>>
    /\ UNCHANGED <<configVars, routerVars, serverVars, wsVars, rtVars>>

\* http::response::Builder::status accepts 100..=999
ValidStatus(s) == s >= 100 /\ s <= 999

\* the status of the response built from an Err
ErrorStatus == 500

\* handle_request, "match result": Ok becomes the response the dispatch
\* result describes, built with builder...unwrap(); Err becomes a 500.
BuildResponse ==
    /\ pc = "returned"
    /\ IF ret.kind = "ok"
       THEN IF ValidStatus(ret.status)
            THEN /\ response' = [status |-> ret.status, ctype |-> ret.ctype,
                                 body |-> ret.body, headers |-> ret.headers,
                                 server |-> TRUE]
                 /\ pc' = "responded"
                 /\ UNCHANGED connAlive
            ELSE /\ connAlive' = FALSE      \* unwrap() on the builder's error
                 /\ pc' = "panicked"
                 /\ UNCHANGED response
       ELSE /\ response' = [status |-> ErrorStatus, ctype |-> "application/json",
                            body |-> "Internal Server Error",
                            headers |-> NoHeaders, server |-> TRUE]
            /\ pc' = "responded"
            /\ UNCHANGED connAlive
    /\ UNCHANGED <<req, idx, ctx, kwargs, injected_task, err, beforeErr, result,
                   ret, log>>
    /\ UNCHANGED <<configVars, routerVars, serverVars, wsVars>>

\* the same, for a request whose background task is not followed
Respond == BuildResponse /\ UNCHANGED rtVars

(***************************************************************************)
(* websocket.rs: one upgraded session.  The session task creates three     *)
(* unbounded channels, spawns write_task and read_task, runs the handler   *)
(* on a blocking thread and cleans up when the handler has returned.       *)
(* The client is the environment.                                          *)
(***************************************************************************)
WsTexts == {"ping"}
CloseFrame == "close frame"       \* WsMessage::Close from the client
TransportEnd == "transport end"   \* ws_read.next() yields None or Some(Err)
BinaryFrame == "binary frame"     \* a frame that is neither Text nor Close
IsTextFrame(f) == f \notin {CloseFrame, TransportEnd, BinaryFrame}
DefaultCloseCode == 1000

\* what a handler passes to close(): a close code, or something that is
\* not a u16
CloseArgs == {1001, 70000}

\* close_fn: `args.get_item(0).and_then(|v| v.extract()).unwrap_or(1000)`
CloseCodeOf(arg) == IF arg \in 0..65535 THEN arg ELSE DefaultCloseCode

\* write_task: WsMessage::Close(Some(CloseFrame { code, reason: "" }))
CloseFrameOf(code) == "close " \o ToString(code)

Op(op, arg) == [op |-> op, arg |-> arg]
ConnectionClosed == "WebSocket closed"   \* the PyConnectionError recv raises

\* text frames the client has sent so far
ClientTextsSent ==
    Cardinality({i \in 1..Len(inbound) : inbound[i] \in WsTexts}) + Len(recvQ)
      + Cardinality({i \in 1..Len(hHist) :
                        hHist[i].op = "recv" /\ hHist[i].arg \in WsTexts})

\* the channels and tasks right after the spawns, handler about to start
WsOpen ==
    /\ clientOpen = TRUE /\ inbound = <<>> /\ clientSent = <<>>
    /\ recvQ = <<>> /\ recvSenders = {"session", "read_task"}
    /\ sendQ = <<>> /\ sendSenders = {"session", "handler"}
    /\ closeQ = <<>> /\ closeSenders = {"session", "handler"}
    /\ writer = "select" /\ held = "" /\ reader = "running"
    /\ hState = "running" /\ hHist = <<>> /\ wire = <<>> /\ session = "awaiting"

\* the environment: the client sends a text frame
ClientSend(t) ==
    /\ clientOpen
    /\ ClientTextsSent < MaxClientMsgs
    /\ inbound' = Append(inbound, t)
    /\ clientSent' = Append(clientSent, t)
    /\ UNCHANGED <<clientOpen, recvQ, recvSenders, sendQ, sendSenders, closeQ,
                   closeSenders, writer, held, reader, hState, hHist, wire, session>>
    /\ UNCHANGED <<routerVars, serverVars, configVars, dispatchVars, rtVars>>

\* the environment: the client sends a data frame, text or not
ClientFrame(f) ==
    /\ clientOpen
    /\ Len(clientSent) < MaxFrames
    /\ inbound' = Append(inbound, f)
    /\ clientSent' = Append(clientSent, f)
    /\ UNCHANGED <<clientOpen, recvQ, recvSenders, sendQ, sendSenders, closeQ,
                   closeSenders, writer, held, reader, hState, hHist, wire, session>>
    /\ UNCHANGED <<routerVars, serverVars, configVars, dispatchVars, rtVars>>

\* the environment: the client closes, with a close frame or by dropping
\* the transport
ClientClose(how) ==
    /\ clientOpen
    /\ clientOpen' = FALSE
    /\ inbound' = Append(inbound, how)
    /\ UNCHANGED <<clientSent, recvQ, recvSenders, sendQ, sendSenders, closeQ,
                   closeSenders, writer, held, reader, hState, hHist, wire, session>>
    /\ UNCHANGED <<routerVars, serverVars, configVars, dispatchVars, rtVars>>

\* (a read_task that forwards the frames it should pass over)
ForwardsAllData(f) == f \notin {CloseFrame, TransportEnd}

\* read_task, `WsMessage::Text(text) =>`
Forwards(f) == IsTextFrame(f)

\* read_task: one turn of `while let Some(Ok(msg)) = ws_read.next().await`
ReadTask ==
    /\ reader = "running"
    /\ inbound # <<>>
    /\ inbound' = Tail(inbound)
    /\ IF Forwards(Head(inbound))
       THEN /\ recvQ' = Append(recvQ, Head(inbound))
            /\ UNCHANGED <<reader, recvSenders>>
       ELSE IF Head(inbound) = BinaryFrame        \* `_ => {}`
       THEN UNCHANGED <<recvQ, reader, recvSenders>>
       ELSE /\ reader' = "done"           \* break / loop end: the task's
            /\ recvSenders' = recvSenders \ {"read_task"}  \* sender is dropped
            /\ UNCHANGED recvQ
    /\ UNCHANGED <<clientOpen, clientSent, sendQ, sendSenders, closeQ, closeSenders, writer,
                   held, hState, hHist, wire, session>>
    /\ UNCHANGED <<routerVars, serverVars, configVars, dispatchVars, rtVars>>

\* the handler calls recv(): recv_fn takes the lock and enters blocking_recv
HandlerRecv ==
    /\ hState = "running"
    /\ Len(hHist) < MaxHandlerOps
    /\ hState' = "in_recv"
    /\ UNCHANGED <<clientOpen, clientSent, inbound, recvQ, recvSenders, sendQ, sendSenders,
                   closeQ, closeSenders, writer, held, reader, hHist, wire, session>>
    /\ UNCHANGED <<routerVars, serverVars, configVars, dispatchVars, rtVars>>

\* blocking_recv yields None when the queue is empty and no sender is left
RecvChannelClosed == recvSenders = {}

\* blocking_recv returns: a queued text, or None and recv raises
HandlerRecvReturn ==
    /\ hState = "in_recv"
    /\ IF recvQ # <<>>
       THEN /\ hHist' = Append(hHist, Op("recv", Head(recvQ)))
            /\ recvQ' = Tail(recvQ)
       ELSE /\ RecvChannelClosed
            /\ hHist' = Append(hHist, Op("recv", ConnectionClosed))
            /\ UNCHANGED recvQ
    /\ hState' = "running"
    /\ UNCHANGED <<clientOpen, clientSent, inbound, recvSenders, sendQ, sendSenders, closeQ,
                   closeSenders, writer, held, reader, wire, session>>
    /\ UNCHANGED <<routerVars, serverVars, configVars, dispatchVars, rtVars>>

\* write_task still owns send_rx and close_rx
WriterAlive == writer \in {"select", "sending"}

\* an unbounded channel's send: the value joins the back of the queue
ChannelSendFront(q, t) == <<t>> \o q
ChannelSend(q, t) == Append(q, t)

\* the handler calls send(t): send_fn; a send on a closed channel is ignored
HandlerSend(t) ==
    /\ hState = "running"
    /\ Len(hHist) < MaxHandlerOps
    /\ hHist' = Append(hHist, Op("send", t))
    /\ sendQ' = IF WriterAlive THEN ChannelSend(sendQ, t) ELSE sendQ
    /\ UNCHANGED <<clientOpen, clientSent, inbound, recvQ, recvSenders, sendSenders, closeQ,
                   closeSenders, writer, held, reader, hState, wire, session>>
    /\ UNCHANGED <<routerVars, serverVars, configVars, dispatchVars, rtVars>>

\* the handler calls close(arg): close_fn queues the code
HandlerClose(arg) ==
    /\ hState = "running"
    /\ Len(hHist) < MaxHandlerOps
    /\ hHist' = Append(hHist, Op("close", ToString(arg)))
    /\ closeQ' = IF WriterAlive THEN Append(closeQ, CloseCodeOf(arg)) ELSE closeQ
    /\ UNCHANGED <<clientOpen, clientSent, inbound, recvQ, recvSenders, sendQ, sendSenders,
                   closeSenders, writer, held, reader, hState, wire, session>>
    /\ UNCHANGED <<routerVars, serverVars, configVars, dispatchVars, rtVars>>

\* the handler returns (or raises): the blocking closure ends and its
\* senders go with it
HandlerReturn ==
    /\ hState = "running"
    /\ hState' = "returned"
    /\ sendSenders' = sendSenders \ {"handler"}
    /\ closeSenders' = closeSenders \ {"handler"}
    /\ UNCHANGED <<clientOpen, clientSent, inbound, recvQ, recvSenders, sendQ, closeQ, writer,
                   held, reader, hHist, wire, session>>
    /\ UNCHANGED <<routerVars, serverVars, configVars, dispatchVars, rtVars>>

\* write_task at select!: a branch whose recv() is ready is taken
WriteTaskSelect ==
    /\ writer = "select"
    /\ \/ /\ sendQ # <<>>                          \* Some(text)
          /\ held' = Head(sendQ)
          /\ sendQ' = Tail(sendQ)
          /\ writer' = "sending"
          /\ UNCHANGED <<closeQ, wire>>
       \/ /\ sendQ = <<>> /\ sendSenders = {}      \* None => break
          /\ writer' = "done"
          /\ UNCHANGED <<held, sendQ, closeQ, wire>>
       \/ /\ closeQ # <<>> \/ closeSenders = {}    \* code.unwrap_or(1000)
          /\ closeQ' = IF closeQ # <<>> THEN Tail(closeQ) ELSE closeQ
          /\ wire' = IF clientOpen
                     THEN Append(wire, CloseFrameOf(IF closeQ # <<>> THEN Head(closeQ)
                                                    ELSE DefaultCloseCode))
                     ELSE wire
          /\ writer' = "done"
          /\ UNCHANGED <<held, sendQ>>
    /\ UNCHANGED <<clientOpen, clientSent, inbound, recvQ, recvSenders, sendSenders,
                   closeSenders, reader, hState, hHist, session>>
    /\ UNCHANGED <<routerVars, serverVars, configVars, dispatchVars, rtVars>>

\* write_task at ws_write.send(text).await: the frame goes out, or the
\* send fails on a closed socket and the loop breaks
WriteTaskSend ==
    /\ writer = "sending"
    /\ held' = ""
    /\ \/ /\ wire' = Append(wire, held)
          /\ writer' = "select"
       \/ /\ ~clientOpen
          /\ writer' = "done"
          /\ UNCHANGED wire
    /\ UNCHANGED <<clientOpen, clientSent, inbound, recvQ, recvSenders, sendQ, sendSenders,
                   closeQ, closeSenders, reader, hState, hHist, session>>
    /\ UNCHANGED <<routerVars, serverVars, configVars, dispatchVars, rtVars>>

\* cleanup, first half: drop(send_tx); drop(recv_tx); drop(close_tx)
SessionDrop ==
    /\ session = "awaiting"
    /\ hState = "returned"
    /\ session' = "dropped"
    /\ sendSenders' = sendSenders \ {"session"}
    /\ recvSenders' = recvSenders \ {"session"}
    /\ closeSenders' = closeSenders \ {"session"}
    /\ UNCHANGED <<clientOpen, clientSent, inbound, recvQ, sendQ, closeQ, writer, held, reader,
                   hState, hHist, wire>>
    /\ UNCHANGED <<routerVars, serverVars, configVars, dispatchVars, rtVars>>

\* (a cleanup whose abort() calls leave the tasks as they are)
Detached(task) == task

\* JoinHandle::abort: a task that has not finished is cancelled
Aborted(task) == IF task \in {"done", "aborted"} THEN task ELSE "aborted"

\* cleanup, second half: write_task.abort(); read_task.abort()
SessionAbort ==
    /\ session = "dropped"
    /\ session' = "done"
    /\ writer' = Aborted(writer)
    /\ reader' = Aborted(reader)
    /\ recvSenders' = recvSenders \ {"read_task"}
    /\ UNCHANGED <<clientOpen, clientSent, inbound, recvQ, sendQ, sendSenders, closeQ,
                   closeSenders, held, hState, hHist, wire>>
    /\ UNCHANGED <<routerVars, serverVars, configVars, dispatchVars, rtVars>>

\* the threads of the blocking pool that dispatches land on
Threads == {"blocking-1", "blocking-2"}

\* the runtime before any dispatch
NoArrival == [is_multipart |-> FALSE, body |-> "empty"]
NoRequest == [kind |-> "none", on |-> "none", pc |-> "none"]
NoBg == [chunks |-> 0, sent |-> 0, task |-> "none"]
RtIdle ==
    /\ loopSlot = [t \in Threads |-> None]
    /\ loopsMade = 0
    /\ loopLog = <<>>
    /\ gil = 0
    /\ reqs = [i \in 1..MaxReqs |-> NoRequest]
    /\ upResp = "none" /\ upSent = FALSE /\ upSession = "none"
    /\ bg = [i \in 1..MaxBgRequests |-> NoBg]
    /\ arrived = NoArrival /\ bodyRead = FALSE

(***************************************************************************)
(* The thread-local event-loop slot (server.rs ASYNCIO_LOOP).  Dispatches  *)
(* run on the threads of the blocking pool; three places look at the slot  *)
(* of the thread they run on and fill it when it is empty.                 *)
(***************************************************************************)
LoopSites == {"handle_request", "call_python_handler", "handle_websocket"}

\* (a slot that gets a new loop on every dispatch that can create one)
EnsureLoopPerRequest(slot, created, fresh) ==
    IF created THEN Some(fresh) ELSE slot

\* `if loop_ref.is_none() { .. *loop_ref = Some((loop, run_method)) }`:
\* created says that new_event_loop is there, its call succeeded and the
\* loop has run_until_complete
EnsureLoop(slot, created, fresh) ==
    IF ~slot.some /\ created THEN Some(fresh) ELSE slot

\* a coroutine goes to the loop where the handler's result is awaited:
\* `cached.1.call1((&res,))` in call_python_handler and handle_websocket
Submits(site, is_async, slot) ==
    site # "handle_request" /\ is_async /\ slot.some

LoopStep(site, t, created, is_async) ==
    /\ Len(loopLog) < MaxLoopSteps
    /\ LET slot == EnsureLoop(loopSlot[t], created, loopsMade + 1) IN
       /\ loopSlot' = [loopSlot EXCEPT ![t] = slot]
       /\ loopsMade' = IF slot # loopSlot[t] THEN loopsMade + 1 ELSE loopsMade
       /\ loopLog' = Append(loopLog, [site |-> site, thread |-> t,
                                     before |-> loopSlot[t], after |-> slot,
                                     is_async |-> is_async,
                                     submitted |-> Submits(site, is_async, slot)])
    /\ UNCHANGED <<gil, reqs, upResp, upSent, upSession, bg, arrived, bodyRead>>
    /\ UNCHANGED <<routerVars, serverVars, configVars, dispatchVars, wsVars>>

\* handle_request, inside spawn_blocking, before call_python_handler, for
\* the handler of the matched route, synchronous or not
EnsureLoopHttp(t, created, is_async) ==
    LoopStep("handle_request", t, created, is_async)

\* call_python_handler, when an async handler returned its coroutine
EnsureLoopAsync(t, created) == LoopStep("call_python_handler", t, created, TRUE)

\* handle_websocket, inside spawn_blocking, before the handler is called
EnsureLoopWs(t, created, is_async) ==
    LoopStep("handle_websocket", t, created, is_async)

(***************************************************************************)
(* The interpreter lock.  handle_request runs as a reactor task on the     *)
(* tokio runtime; Python::with_gil blocks its caller until the lock is     *)
(* free and holds it until the closure returns.  Each request is followed  *)
(* from its arrival to the last closure it runs under the lock.            *)
(***************************************************************************)
ReqIds == 1..MaxReqs
ReqKinds == {"routed", "options", "ws"}

SetReq(i, on, p) == reqs' = [reqs EXCEPT ![i].on = on, ![i].pc = p]
GilFrame ==
    /\ UNCHANGED <<loopSlot, loopsMade, loopLog, upResp, upSent, upSession, bg,
                   arrived, bodyRead>>
    /\ UNCHANGED <<routerVars, serverVars, configVars, dispatchVars, wsVars>>

\* hyper calls handle_request on the connection's reactor task
Arrive(i, kind) ==
    /\ reqs[i] = NoRequest
    /\ reqs' = [reqs EXCEPT ![i] = [kind |-> kind, on |-> "reactor", pc |-> "start"]]
    /\ UNCHANGED gil
    /\ GilFrame

\* routed request: `spawn_blocking(move || Python::with_gil(..))`
Offload(i) ==
    /\ reqs[i].kind = "routed" /\ reqs[i].pc = "start"
    /\ SetReq(i, "blocking", "want_gil")
    /\ UNCHANGED gil
    /\ GilFrame

\* OPTIONS request: `return Python::with_gil(..)` in handle_request itself;
\* the closure builds the request object and calls the after_request hooks
OptionsWithGil(i) ==
    /\ reqs[i].kind = "options" /\ reqs[i].pc = "start"
    /\ SetReq(i, "reactor", "want_gil")
    /\ UNCHANGED gil
    /\ GilFrame

\* upgrade request: the route lookup `Python::with_gil(|py| .. clone_ref(py))`
\* in handle_request / handle_websocket itself
WsLookupWithGil(i) ==
    /\ reqs[i].kind = "ws" /\ reqs[i].pc = "start"
    /\ SetReq(i, "reactor", "want_gil")
    /\ UNCHANGED gil
    /\ GilFrame

\* Python::with_gil returns from its wait
AcquireGil(i) ==
    /\ reqs[i].pc = "want_gil"
    /\ gil = 0
    /\ gil' = i
    /\ SetReq(i, reqs[i].on, "has_gil")
    /\ GilFrame

\* the closure of a routed or OPTIONS dispatch, or of the upgrade lookup,
\* returns; after the lookup the 101 is returned and the session spawned
ReleaseGil(i) ==
    /\ reqs[i].pc = "has_gil" /\ gil = i
    /\ gil' = 0
    /\ SetReq(i, reqs[i].on,
              IF reqs[i].kind = "ws" /\ reqs[i].on = "reactor"
              THEN "session_spawned" ELSE "done")
    /\ GilFrame

\* the session task: `spawn_blocking(move || Python::with_gil(..))` around
\* the WebSocket handler
SessionOffload(i) ==
    /\ reqs[i].kind = "ws" /\ reqs[i].pc = "session_spawned"
    /\ SetReq(i, "blocking", "want_gil")
    /\ UNCHANGED gil
    /\ GilFrame

\* the handler calls recv(): recv_fn runs rx.blocking_recv() inside the
\* PyCFunction, under the with_gil of the session's blocking task
WsRecvCall(i) ==
    /\ reqs[i].kind = "ws" /\ reqs[i].on = "blocking" /\ reqs[i].pc = "has_gil"
    /\ gil = i
    /\ SetReq(i, "blocking", "in_recv")
    /\ UNCHANGED gil
    /\ GilFrame

\* a client message (or the channel's closing) ends the blocking_recv
WsRecvReturn(i) ==
    /\ reqs[i].pc = "in_recv"
    /\ SetReq(i, "blocking", "has_gil")
    /\ UNCHANGED gil
    /\ GilFrame

(***************************************************************************)
(* websocket.rs, handle_websocket: the upgrade request.  A matching path   *)
(* spawns the session task and returns the 101 response; the session task  *)
(* first awaits hyper::upgrade::on(req), which resolves when hyper has     *)
(* written the 101 response and handed the connection over.                *)
(***************************************************************************)
WsRoutes == {"/ws"}
UpgradePaths == {"/ws", "/chat"}

\* (a session task that does not await the upgrade)
NoUpgradeAwait == TRUE

\* `hyper::upgrade::on(req).await` is ready
UpgradeOn == upSent

UpgradeFrame ==
    /\ UNCHANGED <<loopSlot, loopsMade, loopLog, gil, reqs, bg, arrived, bodyRead>>
    /\ UNCHANGED <<routerVars, serverVars, configVars, dispatchVars>>

\* handle_websocket: lookup, tokio::task::spawn of the session, return 101;
\* without a matching route, the fallback response
UpgradeRequest(path) ==
    /\ upResp = "none"
    /\ IF path \in WsRoutes
       THEN upResp' = "101" /\ upSession' = "awaiting_upgrade"
       ELSE upResp' = "404" /\ UNCHANGED upSession
    /\ UNCHANGED <<upSent, wsVars>>
    /\ UpgradeFrame

\* hyper writes the response handle_request returned
UpgradeResponseWritten ==
    /\ upResp # "none" /\ ~upSent
    /\ upSent' = TRUE
    /\ UNCHANGED <<upResp, upSession, wsVars>>
    /\ UpgradeFrame

\* the session task, `Ok(upgraded) =>`: channels, write_task, read_task
\* and the handler's blocking task are created
UpgradeCompletes ==
    /\ upSession = "awaiting_upgrade"
    /\ UpgradeOn
    /\ upSession' = "running"
    /\ clientOpen' = TRUE /\ inbound' = <<>> /\ clientSent' = <<>>
    /\ recvQ' = <<>> /\ recvSenders' = {"session", "read_task"}
    /\ sendQ' = <<>> /\ sendSenders' = {"session", "handler"}
    /\ closeQ' = <<>> /\ closeSenders' = {"session", "handler"}
    /\ writer' = "select" /\ held' = "" /\ reader' = "running"
    /\ hState' = "running" /\ hHist' = <<>> /\ wire' = <<>> /\ session' = "awaiting"
    /\ UNCHANGED <<upResp, upSent>>
    /\ UpgradeFrame

\* the session task, `Err(_e) => {}`: the connection went away first
UpgradeFails ==
    /\ upSession = "awaiting_upgrade"
    /\ upSession' = "failed"
    /\ UNCHANGED <<upResp, upSent, wsVars>>
    /\ UpgradeFrame

(***************************************************************************)
(* server.rs, handle_request after the dispatch returned Ok: the response  *)
(* is built and returned for hyper to write; a background task the handler *)
(* scheduled is handed to a detached task that sleeps 150 ms and then      *)
(* calls execute on a blocking thread.  The client receives the body in    *)
(* as many writes as the connection takes.                                 *)
(***************************************************************************)
BgIds == 1..MaxBgRequests

BgFrame ==
    /\ UNCHANGED <<loopSlot, loopsMade, loopLog, gil, reqs, upResp, upSent, upSession,
                   arrived, bodyRead>>
    /\ UNCHANGED <<routerVars, serverVars, configVars, dispatchVars, wsVars>>

\* `if let Some(task) = bg_task { tokio::spawn(..) }  return Ok(response)`
SpawnTask(i, n, has_task) ==
    /\ bg[i] = NoBg
    /\ bg' = [bg EXCEPT ![i] = [chunks |-> n, sent |-> 0,
                                task |-> IF has_task THEN "sleeping" ELSE "none"]]

ReturnResponse(i, n, has_task) == SpawnTask(i, n, has_task) /\ BgFrame

\* handle_request, "match result", for the request answered in slot i: the
\* response is built and a task the dispatch returned is spawned; the Err
\* arm and a builder that panics spawn nothing
RespondAndSpawn(i, n) ==
    /\ BuildResponse
    /\ IF ret.kind = "ok"
       THEN IF ValidStatus(ret.status)
            THEN SpawnTask(i, n, ret.task.some)
            ELSE UNCHANGED bg
       ELSE SpawnTask(i, n, FALSE)
    /\ UNCHANGED <<loopSlot, loopsMade, loopLog, gil, reqs, upResp, upSent, upSession,
                   arrived, bodyRead>>

\* hyper writes the next part of the response to the client
WriteChunk(i) ==
    /\ bg[i].sent < bg[i].chunks
    /\ bg' = [bg EXCEPT ![i].sent = @ + 1]
    /\ BgFrame

\* `tokio::time::sleep(Duration::from_millis(150)).await` is over and the
\* closure is handed to spawn_blocking
TimerFires(i) ==
    /\ bg[i].task = "sleeping"
    /\ bg' = [bg EXCEPT ![i].task = "due"]
    /\ BgFrame

\* `Python::with_gil(|py| { let _ = task.call_method0(py, "execute"); })`
ExecuteTask(i) ==
    /\ bg[i].task = "due"
    /\ bg' = [bg EXCEPT ![i].task = "executed"]
    /\ BgFrame

(***************************************************************************)
(* server.rs, handle_request between the route match and the dispatch:     *)
(* the request body is collected only when something can look at it.       *)
(***************************************************************************)
needs_body(s) == "body" \in s.param_names

\* (a server that collects the body of every matched request)
CollectBodyAlways(s, a, ok) == [read |-> TRUE, bytes |-> a.body]

\* `let body_bytes = if needs_body || needs_request || is_multipart {
\*      match body.collect().await { Ok(c) => c.to_bytes().to_vec(),
\*                                   Err(_) => Vec::new() } }
\*  else { Vec::new() }`
CollectBody(s, a, ok) ==
    IF needs_body(s) \/ needs_request(s) \/ a.is_multipart
    THEN [read |-> TRUE, bytes |-> IF ok THEN a.body ELSE "empty"]
    ELSE [read |-> FALSE, bytes |-> "empty"]

\* the multipart fields are parsed out of body_bytes
ParsedFields(a, bytes) ==
    IF a.is_multipart /\ bytes # "empty" THEN a.form_fields ELSE EmptyMap

\* what hyper delivers for a matched route in this model
Arrivals ==
    [is_multipart : BOOLEAN, is_json : BOOLEAN, body : {"empty", "text", "json"},
     validate : {"ok"}, form_fields : PartialFns({"id"}, {"abc"})]

HandleRequestBody(a, ok) ==
    /\ LET c == CollectBody(sig, a, ok) IN
        /\ bodyRead' = c.read
        /\ arrived' = [is_multipart |-> a.is_multipart, body |-> a.body]
        /\ Accept([NoReq EXCEPT !.form_fields = ParsedFields(a, c.bytes),
                                !.is_json = a.is_json, !.body = c.bytes,
                                !.validate = a.validate])
    /\ UNCHANGED <<loopSlot, loopsMade, loopLog, gil, reqs, upResp, upSent,
                   upSession, bg>>

(***************************************************************************)
(* call_python_handler, "Parse the result": the value the handler (or the  *)
(* last after_request hook) returned is unpacked when it is a tuple,       *)
(* rendered when the body value is a response object, and converted to a   *)
(* body string and a content type otherwise.  The code is the same in both *)
(* revisions.  Python values are records tagged with their type; a body    *)
(* string is stood for by the value it is the text of.                     *)
(***************************************************************************)
PyStr(text) == [type |-> "str", text |-> text]
PyBool(b) == [type |-> "bool", b |-> b]
PyList == [type |-> "list"]
PyInt(n) == [type |-> "int", n |-> n]
PyDict(entries) == [type |-> "dict", entries |-> entries]
PyOther == [type |-> "other"]
PyTuple(items) == [type |-> "tuple", items |-> items]
\* an object with content_type, status_code, headers and render()
PyResponse(ct, sc, headers) ==
    [type |-> "response", content_type |-> ct, status_code |-> sc, headers |-> headers]

HeaderKeys == {"x-a", "x-b"}
HeaderVals == {"t", "r"}
NonString == "<not a str>"      \* a dict entry whose value is not a str

HeaderDicts == {PyDict(e) : e \in PartialFns(HeaderKeys, HeaderVals \cup {NonString})}
Responses ==
    {PyResponse("text/html", sc, h) : sc \in {200, 404}, h \in HeaderDicts \cup {PyOther}}
Texts == {"hi", "<p>", " <p>"}
BodyValues ==
    {PyStr(t) : t \in Texts}
    \cup {PyDict(EmptyMap), PyList, PyBool(TRUE), PyInt(7), PyOther}
    \cup Responses
StatusValues == {PyInt(201), PyStr("hi")}
ResultValues ==
    BodyValues
    \cup {PyTuple(<<b>>) : b \in BodyValues}
    \cup {PyTuple(<<b, s>>) : b \in BodyValues, s \in StatusValues}
    \cup {PyTuple(<<b, s, h>>) : b \in BodyValues, s \in StatusValues,
                                 h \in HeaderDicts \cup {PyOther}}

\* (a merge in which the entries already present win)
ExtendKeepExisting(existing, hmap) == Merge(hmap, existing)

\* existing.extend(hmap)
Extend(existing, hmap) == Merge(existing, hmap)

\* the entries of a dict that extract as (String, String)
StringEntries(e) ==
    LET ks == {k \in DOMAIN e : e[k] # NonString} IN [k \in ks |-> e[k]]

\* the response object's headers over custom_headers
resp_headers(actual_result, custom_headers) ==
    IF actual_result.headers.type # "dict" THEN custom_headers
    ELSE LET hmap == StringEntries(actual_result.headers.entries) IN
         IF hmap = EmptyMap THEN custom_headers
         ELSE IF custom_headers.some
              THEN Some(Extend(custom_headers.val, hmap))
              ELSE Some(hmap)

\* str::trim_start and str::starts_with('<') on the texts above
trim_start(s) == IF s = " <p>" THEN "<p>" ELSE s
starts_with_lt(s) == s = "<p>"

\* how the body string is made from a body value that is not a response
\* object: json.dumps(value), the text itself, or str(value)
body_conversion(actual_result) ==
    CASE actual_result.type \in {"dict", "list"} -> "json.dumps"
      [] actual_result.type = "str" -> "text"
      [] OTHER -> "str()"

\* content type of a body value that is not a response object
content_type(actual_result) ==
    CASE body_conversion(actual_result) = "json.dumps" -> "application/json"
      [] body_conversion(actual_result) = "text" ->
            IF starts_with_lt(trim_start(actual_result.text))
            THEN "text/html; charset=utf-8"
            ELSE "text/plain; charset=utf-8"
      [] OTHER -> "text/plain; charset=utf-8"

\* hasattr content_type, hasattr render, neither a dict nor a str
IsBaseResponse(v) == v.type = "response"

\* the tuple (body_str, content_type, status_code, custom_headers) behind Ok;
\* body_str is `via` applied to `body`
Parsed(body, via, ct, sc, h) ==
    [kind |-> "ok", status |-> sc, ctype |-> ct, body |-> body, via |-> via,
     headers |-> h, task |-> None]

ParseResult(bound_result) ==
    LET is_tuple == bound_result.type = "tuple"
        len == IF is_tuple THEN Len(bound_result.items) ELSE 0
        actual_result == IF len >= 2 THEN bound_result.items[1] ELSE bound_result
        status_fails == len >= 2 /\ bound_result.items[2].type # "int"
        status_code == IF len >= 2 /\ ~status_fails THEN bound_result.items[2].n ELSE 200
        has_dict == len >= 3 /\ bound_result.items[3].type = "dict"
        headers_fail ==
            has_dict /\ \E k \in DOMAIN bound_result.items[3].entries :
                            bound_result.items[3].entries[k] = NonString
        custom_headers == IF has_dict THEN Some(bound_result.items[3].entries) ELSE None
    IN IF status_fails \/ headers_fail THEN ErrRet
       ELSE IF IsBaseResponse(actual_result)
       THEN Parsed(actual_result, "render()", actual_result.content_type,
                   actual_result.status_code,
                   resp_headers(actual_result, custom_headers))
       ELSE Parsed(actual_result, body_conversion(actual_result),
                   content_type(actual_result), status_code,
                   custom_headers)

\* the dispatch from "Parse the result" to its return
ParseTheResult ==
    /\ pc = "normalize"
    /\ ret' = ParseResult(result)
    /\ pc' = "returned"
    /\ UNCHANGED <<req, idx, ctx, kwargs, injected_task, err, beforeErr, result,
                   response, connAlive, log>>
    /\ UNCHANGED <<configVars, routerVars, serverVars, wsVars, rtVars>>


(***************************************************************************)
(* handle_request from the arrival of a request to the choice of a branch: *)
(* the WebSocket upgrade check, the OPTIONS branch, the route lookup and   *)
(* the not-found response (server.rs).  A request is the method as written *)
(* on the request line, the path, and whether an `upgrade: websocket`      *)
(* header is present.                                                      *)
(***************************************************************************)
WireMethods == {"GET", "get", "POST", "OPTIONS", "TRACE"}
WireRequests == [method : WireMethods, path : Paths, upgrade : BOOLEAN]

\* ServerState.ws_routes: the paths of the registered WebSocket routes
ws_routes == {<<"users">>}

\* the routes the server of SpecRequest was configured with
ServedRoutes ==
    <<[method |-> "Get", path |-> <<Static("users"), Param("id")>>, handler |-> 1],
      [method |-> "Post", path |-> <<Static("users")>>, handler |-> 2]>>

\* ServerState as Server::run builds it from rs
ServerRunning(rs) ==
    LET res == RunLoop(rs, 1, RouterNew, <<>>) IN
    /\ routes = rs
    /\ addResult = "Ok"
    /\ srvPhase = "running"
    /\ stRouter = res.router
    /\ handlers = res.handlers
    /\ interrupted = FALSE
    /\ conns = [c \in 1..MaxConns |-> "none"]

is_ws_upgrade(r) == r.upgrade

\* ws_handler_clone: a registered WebSocket route with the request's path
ws_handler_clone(r) == r.path \in ws_routes

\* the request leaves handle_request through the upgrade branch
TakesUpgrade(r) == is_ws_upgrade(r) /\ ws_handler_clone(r)

\* the 101 Switching Protocols response
SwitchingProtocols ==
    [status |-> 101, ctype |-> "", body |-> "", headers |-> "upgrade",
     server |-> FALSE]

\* the response of the OPTIONS branch; h: the headers of the final result
OptionsResponse(h) ==
    [status |-> 200, ctype |-> "text/plain", body |-> "", headers |-> h,
     server |-> TRUE]

\* "No route matched -> 404"
NotFound ==
    [status |-> 404, ctype |-> "application/json", body |-> "Not Found",
     headers |-> NoHeaders, server |-> TRUE]

\* the OPTIONS branch's walk over state.middlewares.iter().rev(): the calls
\* of after_request it makes, each with the request object the branch built
OptionsAfterCalls ==
    LET visit == [k \in 1..Len(middlewares) |-> AfterOrder(k)]
        called == SelectSeq(visit, LAMBDA i : middlewares[i].after)
    IN [k \in 1..Len(called) |-> Event("after", called[k], OrigCtx)]

\* handle_request up to the branch it takes.  hook_headers: the final
\* result of the after chain is a tuple whose third element is a dict.
HandleRequest(r, hook_headers) ==
    /\ pc = "idle"
    /\ arrived' = r
    /\ IF TakesUpgrade(r)
       THEN /\ upResp' = "101" /\ upSession' = "awaiting_upgrade"
            /\ response' = SwitchingProtocols
            /\ pc' = "upgraded"
            /\ UNCHANGED log
       ELSE IF r.method = "OPTIONS"
       THEN /\ log' = log \o OptionsAfterCalls
            /\ response' = OptionsResponse(IF hook_headers /\ OptionsAfterCalls # <<>>
                                           THEN "custom" ELSE NoHeaders)
            /\ pc' = "options"
            /\ UNCHANGED <<upResp, upSession>>
       ELSE LET router_method == MethodFromStr(r.method)
                route_match == IF router_method.some
                               THEN RouterFind(stRouter, router_method.val, r.path)
                               ELSE None
            IN /\ log' = IF router_method.some
                         THEN Append(log, Event("find", 0, NoCtx))
                         ELSE log
               /\ IF route_match.some
                  THEN /\ pc' = "matched"
                       /\ UNCHANGED response
                  ELSE /\ pc' = "not_found"
                       /\ response' = NotFound
               /\ UNCHANGED <<upResp, upSession>>
    /\ UNCHANGED <<req, idx, ctx, kwargs, injected_task, err, beforeErr, result, ret,
                   connAlive>>
    /\ UNCHANGED <<loopSlot, loopsMade, loopLog, gil, reqs, upSent, bg, bodyRead>>
    /\ UNCHANGED <<routerVars, serverVars, configVars, wsVars>>


(***************************************************************************)
(* run_server (server.rs): the accept loop.  `loop { accept().await?;      *)
(* spawn(serve_connection) }` has no exit of its own: run_server returns   *)
(* only through the `?` on a failed accept.  Server::run blocks in         *)
(* rt.block_on(run_server) with the interpreter lock released; no signal   *)
(* handler is registered and nothing in the loop looks at a signal, so an  *)
(* interrupt delivered to the process is recorded and changes nothing the  *)
(* server does.                                                            *)
(***************************************************************************)
ServerFrame ==
    /\ UNCHANGED <<routes, addResult, stRouter, handlers>>
    /\ UNCHANGED <<routerVars, configVars, dispatchVars, wsVars, rtVars>>

\* the signal arrives
Interrupt ==
    /\ ~interrupted
    /\ interrupted' = TRUE
    /\ UNCHANGED <<srvPhase, conns>>
    /\ ServerFrame

\* `listener.accept().await` is Ok: the connection task is spawned
AcceptConnection(c) ==
    /\ srvPhase = "running"
    /\ conns[c] = "none" /\ \A d \in 1..(c - 1) : conns[d] # "none"
    /\ conns' = [conns EXCEPT ![c] = "open"]
    /\ UNCHANGED <<srvPhase, interrupted>>
    /\ ServerFrame

\* `listener.accept().await?` is Err: run_server and Server::run return it
\* (the runtime and the tasks it still holds are dropped with the return)
AcceptFails ==
    /\ srvPhase = "running"
    /\ srvPhase' = "stopped"
    /\ UNCHANGED <<conns, interrupted>>
    /\ ServerFrame

\* a connection task: serve_connection reads a request, ...
RequestArrives(c) ==
    /\ srvPhase = "running"
    /\ conns[c] = "open"
    /\ conns' = [conns EXCEPT ![c] = "in_flight"]
    /\ UNCHANGED <<srvPhase, interrupted>>
    /\ ServerFrame

\* ... awaits handle_request and writes the response, ...
RequestServed(c) ==
    /\ srvPhase = "running"
    /\ conns[c] = "in_flight"
    /\ conns' = [conns EXCEPT ![c] = "open"]
    /\ UNCHANGED <<srvPhase, interrupted>>
    /\ ServerFrame

\* ... and ends when the client closes the connection
ConnectionCloses(c) ==
    /\ srvPhase = "running"
    /\ conns[c] = "open"
    /\ conns' = [conns EXCEPT ![c] = "closed"]
    /\ UNCHANGED <<srvPhase, interrupted>>
    /\ ServerFrame


(***************************************************************************)
(* Specifications                                                          *)
(***************************************************************************)
\* the configuration of a server that dispatches nothing
PlainSig ==
    [param_names |-> {}, param_types |-> EmptyMap, is_async |-> FALSE,
     has_depends |-> FALSE]
ConfigIdle == rev = "server_rs" /\ middlewares = <<>> /\ sig = PlainSig

\* no WebSocket session
WsIdle ==
    /\ clientOpen = FALSE /\ inbound = <<>> /\ clientSent = <<>>
    /\ recvQ = <<>> /\ recvSenders = {}
    /\ sendQ = <<>> /\ sendSenders = {}
    /\ closeQ = <<>> /\ closeSenders = {}
    /\ writer = "done" /\ held = "" /\ reader = "done"
    /\ hState = "returned" /\ hHist = <<>> /\ wire = <<>> /\ session = "done"

InitRouter == RouterIdle /\ ServerIdle /\ ConfigIdle /\ DispatchIdle /\ WsIdle /\ RtIdle
NextRouter == \E m \in RouteMethods, p \in Patterns : Insert(m, p)
SpecRouter == InitRouter /\ [][NextRouter]_vars

InitServer == RouterIdle /\ ServerIdle /\ ConfigIdle /\ DispatchIdle /\ WsIdle /\ RtIdle
NextServer ==
    \/ \E s \in MethodStrings, p \in Patterns : AddRoute(s, p, NextHandlerId)
    \/ Run
SpecServer == InitServer /\ [][NextServer]_vars

\* ---- SpecBind: argument binding over signatures and requests ----
MapSize(f) == Cardinality(DOMAIN f)

BindSigs ==
    {s \in UNION {SigsOver(N) : N \in SUBSET ParamNameSet} :
        Cardinality(s.param_names) <= MaxParams /\ ~s.is_async}

DepValue == V("dep", "resolved")
DepKeys == {"id", "request"}
FormKeys == {"id", "task"}
QueryKeys == {"id", "task", "body"}

Bodies ==
    {[is_json |-> FALSE, body |-> "empty", validate |-> "ok"],
     [is_json |-> FALSE, body |-> "text", validate |-> "ok"],
     [is_json |-> FALSE, body |-> "binary", validate |-> "ok"],
     [is_json |-> TRUE, body |-> "text", validate |-> "ok"]}
    \cup [is_json : {TRUE}, body : {"json"},
          validate : {"ok", "errors", "unserializable"}]

MkReq(pp, d, ff, q, b) ==
    [path_params |-> pp, deps |-> d, form_fields |-> ff, form_files |-> {},
     query |-> q, is_json |-> b.is_json, body |-> b.body, validate |-> b.validate]

DepsSize(d) == IF d.some THEN MapSize(d.val) ELSE 0

AllBindRequests ==
    {MkReq(pp, d, ff, q, b) :
        pp \in PartialFns({"id"}, RawTexts),
        d \in {None} \cup {Some(x) : x \in PartialFns(DepKeys, {DepValue})},
        ff \in PartialFns(FormKeys, {"abc"}),
        q \in PartialFns(QueryKeys, RawTexts),
        b \in Bodies}

BoundedRequest(r) ==
    MapSize(r.path_params) + DepsSize(r.deps) + MapSize(r.form_fields)
        + MapSize(r.query) <= MaxEntries

BindRequests == {r \in AllBindRequests : BoundedRequest(r)}

InitBind ==
    /\ RouterIdle /\ ServerIdle /\ DispatchIdle /\ WsIdle /\ RtIdle
    /\ rev \in Revs /\ middlewares = <<>> /\ sig \in BindSigs
NextBind ==
    \/ pc = "idle" /\ \E r \in BindRequests : Receive(r)
    \/ BeforeHook
    \/ BeforeHookInline
    \/ Bind
SpecBind == InitBind /\ [][NextBind]_vars

\* ---- SpecDispatch: one connection task dispatching requests ----
IdSig == [param_names |-> {"id"}, param_types |-> [n \in {"id"} |-> "int"],
          is_async |-> FALSE, has_depends |-> FALSE]
BodySig == [param_names |-> {"body"}, param_types |-> [n \in {"body"} |-> "Model"],
            is_async |-> FALSE, has_depends |-> FALSE]
DispatchSigs ==
    {[s EXCEPT !.is_async = a] : s \in {PlainSig, IdSig, BodySig}, a \in BOOLEAN}

DispatchRequests(s) ==
    {MkReq(pp, None, EmptyMap, EmptyMap, b) :
        pp \in IF "id" \in s.param_names
               THEN [{"id"} -> RawTexts] ELSE {EmptyMap},
        b \in IF "body" \in s.param_names
              THEN {x \in Bodies : x.body = "json"}
              ELSE {x \in Bodies : ~x.is_json /\ x.body = "empty"}}

InitDispatch ==
    /\ RouterIdle /\ ServerIdle /\ DispatchIdle /\ WsIdle /\ RtIdle
    /\ rev \in Revs
    /\ middlewares \in SeqsUpTo(MwKinds, MaxMw)
    /\ sig \in DispatchSigs
NextDispatch ==
    \/ pc \in {"idle", "responded"} /\ \E r \in DispatchRequests(sig) : Receive(r)
    \/ BeforeHook
    \/ BeforeHookInline
    \/ Bind
    \/ CallHandler
    \/ OnErrorHook
    \/ ErrorUnhandled
    \/ ErrorUnhandledInline
    \/ AfterHook
    \/ AfterHookInline
    \/ Normalize
    \/ Respond
SpecDispatch == InitDispatch /\ [][NextDispatch]_vars

\* ---- SpecTask: one request from its dispatch to its background task ----
TaskSig ==
    [param_names |-> {"id", "body", "task"},
     param_types |-> [n \in {"id", "body", "task"} |->
                         CASE n = "id" -> "int"
                           [] n = "body" -> "Model"
                           [] OTHER -> "BackgroundTask"],
     is_async |-> FALSE, has_depends |-> FALSE]
InitTask ==
    /\ RouterIdle /\ ServerIdle /\ DispatchIdle /\ WsIdle /\ RtIdle
    /\ rev \in Revs
    /\ middlewares \in SeqsUpTo(MwKinds, MaxMw)
    /\ sig \in {[TaskSig EXCEPT !.is_async = a] : a \in BOOLEAN}
NextTask ==
    \/ pc = "idle" /\ \E r \in DispatchRequests(sig) : Receive(r)
    \/ BeforeHook
    \/ BeforeHookInline
    \/ Bind
    \/ CallHandler
    \/ OnErrorHook
    \/ ErrorUnhandled
    \/ ErrorUnhandledInline
    \/ AfterHook
    \/ AfterHookInline
    \/ Normalize
    \/ RespondAndSpawn(1, 1)
    \/ TimerFires(1)
    \/ ExecuteTask(1)
SpecTask == InitTask /\ [][NextTask]_vars

\* ---- SpecWS: one WebSocket session; FairSpecWS: with its scheduling ----
InitWS == RouterIdle /\ ServerIdle /\ ConfigIdle /\ DispatchIdle /\ WsOpen /\ RtIdle
NextWS ==
    \/ \E t \in WsTexts : ClientSend(t)
    \/ \E how \in {CloseFrame, TransportEnd} : ClientClose(how)
    \/ ReadTask
    \/ HandlerRecv
    \/ HandlerRecvReturn
    \/ \E t \in WsTexts : HandlerSend(t)
    \/ \E arg \in CloseArgs : HandlerClose(arg)
    \/ HandlerReturn
    \/ WriteTaskSelect
    \/ WriteTaskSend
    \/ SessionDrop
    \/ SessionAbort
SpecWS == InitWS /\ [][NextWS]_vars

\* Spawned tasks and the blocking thread are scheduled whenever they can
\* run; the client and the handler's choice of calls are not constrained.
FairSpecWS ==
    /\ InitWS /\ [][NextWS]_vars
    /\ WF_vars(ReadTask)
    /\ WF_vars(HandlerRecvReturn)
    /\ WF_vars(WriteTaskSelect)
    /\ WF_vars(WriteTaskSend)
    /\ WF_vars(SessionDrop)
    /\ WF_vars(SessionAbort)

\* ---- SpecWSInbound: one session whose client sends several distinct ----
\* ---- frames; SpecWSOutbound: one whose handler sends several      ----
OrderTexts == {"ping", "pong"}
SessionSteps ==
    \/ ReadTask
    \/ HandlerRecv
    \/ HandlerRecvReturn
    \/ HandlerClose(1001)
    \/ HandlerReturn
    \/ WriteTaskSelect
    \/ WriteTaskSend
    \/ SessionDrop
    \/ SessionAbort
NextWSInbound ==
    \/ \E f \in OrderTexts \cup {BinaryFrame} : ClientFrame(f)
    \/ \E how \in {CloseFrame, TransportEnd} : ClientClose(how)
    \/ HandlerSend("ping")
    \/ SessionSteps
SpecWSInbound == InitWS /\ [][NextWSInbound]_vars
NextWSOutbound ==
    \/ ClientFrame("ping")
    \/ \E how \in {CloseFrame, TransportEnd} : ClientClose(how)
    \/ \E t \in OrderTexts : HandlerSend(t)
    \/ SessionSteps
SpecWSOutbound == InitWS /\ [][NextWSOutbound]_vars

\* ---- SpecLoop: dispatches passing the loop-slot sites ----
InitLoop ==
    RouterIdle /\ ServerIdle /\ ConfigIdle /\ DispatchIdle /\ WsIdle /\ RtIdle
NextLoop ==
    \/ \E t \in Threads, created, is_async \in BOOLEAN :
           EnsureLoopHttp(t, created, is_async)
    \/ \E t \in Threads, created \in BOOLEAN : EnsureLoopAsync(t, created)
    \/ \E t \in Threads, created, is_async \in BOOLEAN :
           EnsureLoopWs(t, created, is_async)
SpecLoop == InitLoop /\ [][NextLoop]_vars

\* ---- SpecGil: requests contending for the interpreter lock ----
InitGil ==
    RouterIdle /\ ServerIdle /\ ConfigIdle /\ DispatchIdle /\ WsIdle /\ RtIdle
NextGil ==
    \/ \E i \in ReqIds, kind \in ReqKinds : Arrive(i, kind)
    \/ \E i \in ReqIds : Offload(i)
    \/ \E i \in ReqIds : OptionsWithGil(i)
    \/ \E i \in ReqIds : WsLookupWithGil(i)
    \/ \E i \in ReqIds : AcquireGil(i)
    \/ \E i \in ReqIds : ReleaseGil(i)
    \/ \E i \in ReqIds : SessionOffload(i)
    \/ \E i \in ReqIds : WsRecvCall(i)
    \/ \E i \in ReqIds : WsRecvReturn(i)
SpecGil == InitGil /\ [][NextGil]_vars

\* ---- SpecUpgrade: an upgrade request and the session it starts ----
InitUpgrade ==
    RouterIdle /\ ServerIdle /\ ConfigIdle /\ DispatchIdle /\ WsIdle /\ RtIdle
NextUpgrade ==
    \/ \E path \in UpgradePaths : UpgradeRequest(path)
    \/ UpgradeResponseWritten
    \/ UpgradeCompletes
    \/ UpgradeFails
    \/ NextWS
SpecUpgrade == InitUpgrade /\ [][NextUpgrade]_vars

\* ---- SpecBackground: responses and the background tasks behind them ----
InitBackground ==
    RouterIdle /\ ServerIdle /\ ConfigIdle /\ DispatchIdle /\ WsIdle /\ RtIdle
NextBackground ==
    \/ \E i \in BgIds, n \in 1..MaxChunks, has_task \in BOOLEAN :
           ReturnResponse(i, n, has_task)
    \/ \E i \in BgIds : WriteChunk(i)
    \/ \E i \in BgIds : TimerFires(i)
    \/ \E i \in BgIds : ExecuteTask(i)
SpecBackground == InitBackground /\ [][NextBackground]_vars

\* ---- SpecBodyRead: matched requests from arrival to the handler call ----
RequestSig ==
    [param_names |-> {"request"}, param_types |-> EmptyMap, is_async |-> FALSE,
     has_depends |-> FALSE]
BodyReadSigs == {PlainSig, IdSig, BodySig, RequestSig}
InitBodyRead ==
    /\ RouterIdle /\ ServerIdle /\ DispatchIdle /\ WsIdle /\ RtIdle
    /\ rev \in Revs
    /\ middlewares \in SeqsUpTo(MwKinds, MaxMw)
    /\ sig \in BodyReadSigs
NextBodyRead ==
    \/ pc = "idle" /\ \E a \in Arrivals, ok \in BOOLEAN : HandleRequestBody(a, ok)
    \/ BeforeHook
    \/ BeforeHookInline
    \/ Bind
SpecBodyRead == InitBodyRead /\ [][NextBodyRead]_vars

\* ---- SpecRequest: requests arriving at a running server ----
InitRequest ==
    /\ RouterIdle /\ ServerRunning(ServedRoutes) /\ DispatchIdle /\ WsIdle /\ RtIdle
    /\ rev = "server_rs" /\ sig = PlainSig
    /\ middlewares \in SeqsUpTo(MwKinds, MaxMw)
NextRequest ==
    \E r \in WireRequests, hook_headers \in BOOLEAN : HandleRequest(r, hook_headers)
SpecRequest == InitRequest /\ [][NextRequest]_vars

\* ---- SpecResult: results on their way from the handler to the response ----
InitResult ==
    /\ RouterIdle /\ ServerIdle /\ ConfigIdle /\ WsIdle /\ RtIdle
    /\ req = NoReq /\ idx = 0 /\ ctx = NoCtx /\ kwargs = EmptyMap
    /\ injected_task = None /\ err = "none" /\ beforeErr = 0
    /\ ret = NoRet /\ response = NoResponse /\ connAlive = TRUE /\ log = <<>>
    /\ pc = "normalize"
    /\ result \in ResultValues
NextResult == ParseTheResult
SpecResult == InitResult /\ [][NextResult]_vars

\* ---- SpecShutdown: the accept loop of a running server and a signal ----
InitShutdown ==
    /\ RouterIdle /\ ServerRunning(ServedRoutes) /\ ConfigIdle /\ DispatchIdle
    /\ WsIdle /\ RtIdle
NextShutdown ==
    \/ Interrupt
    \/ \E c \in 1..MaxConns : AcceptConnection(c)
    \/ AcceptFails
    \/ \E c \in 1..MaxConns : RequestArrives(c)
    \/ \E c \in 1..MaxConns : RequestServed(c)
    \/ \E c \in 1..MaxConns : ConnectionCloses(c)
SpecShutdown == InitShutdown /\ [][NextShutdown]_vars

(***************************************************************************)
(* C3.  After any sequence of successful Router.insert calls with distinct *)
(* (method, pattern) pairs, find(method, path) returns the index insert    *)
(* returned for a pattern registered under that method that matches the    *)
(* path, with exactly that pattern's named-segment bindings; and it        *)
(* returns no match exactly when no pattern registered under that method   *)
(* matches, whatever is registered under other methods.                    *)
(***************************************************************************)
SuccessfulInserts == {k \in 1..Len(inserted) : inserted[k].ret.some}

\* the insert calls were all successful, on distinct (method, pattern) pairs
DistinctSuccessfulInserts ==
    /\ \A k \in 1..Len(inserted) : inserted[k].ret.some
    /\ \A j, k \in 1..Len(inserted) :
          j # k => <<inserted[j].method, inserted[j].pattern>>
                     # <<inserted[k].method, inserted[k].pattern>>

\* f is what insert call k promises for (m, p)
FindAgrees(f, k, m, p) ==
    LET pat == inserted[k].pattern IN
    /\ inserted[k].method = m
    /\ inserted[k].ret = Some(f.handler_index)
    /\ PatMatches(pat, p)
    /\ DOMAIN f.params = ParamNames(pat)
    /\ \A i \in ParamPositions(pat) : f.params[pat[i].text] = p[i]

C3_FindCorrect ==
    DistinctSuccessfulInserts =>
        \A m \in Method, p \in Paths :
            LET f == RouterFind(router, m, p) IN
            IF f.some
            THEN \E k \in SuccessfulInserts : FindAgrees(f.val, k, m, p)
            ELSE \A k \in SuccessfulInserts :
                    ~(inserted[k].method = m /\ PatMatches(inserted[k].pattern, p))

\* /users/{id} under GET and a static route are registered; /users/42 binds
\* id = "42" under GET, the static route binds nothing, and a path that is
\* registered only under another method finds nothing.
C3_Witness ==
    /\ DistinctSuccessfulInserts
    /\ \E k \in SuccessfulInserts :
          /\ inserted[k].method = "Get"
          /\ inserted[k].pattern = <<Static("users"), Param("id")>>
          /\ RouterFind(router, "Get", <<"users", "42">>)
               = Some([handler_index |-> inserted[k].ret.val,
                       params |-> [n \in {"id"} |-> "42"]])
    /\ \E k \in SuccessfulInserts :
          /\ inserted[k].method = "Post"
          /\ inserted[k].pattern = <<Static("users")>>
          /\ RouterFind(router, "Post", <<"users">>)
               = Some([handler_index |-> inserted[k].ret.val,
                       params |-> [n \in {} |-> ""]])
    /\ ~RouterFind(router, "Post", <<"users", "42">>).some
    /\ ~RouterFind(router, "Delete", <<"users">>).some

(***************************************************************************)
(* C4.  Once the server has started, every handler index Router.find can   *)
(* return is a valid position of the handler-signature array and holds the *)
(* signature built from the route that was registered with that index.     *)
(***************************************************************************)
C4_IndexAddressesSignature ==
    srvPhase = "running" =>
        \A m \in Method, p \in Paths :
            LET f == RouterFind(stRouter, m, p) IN
            f.some =>
                LET index == f.val.handler_index IN
                /\ index >= 0 /\ index < Len(handlers)
                /\ index < Len(routes)
                /\ handlers[index + 1] = SignatureOf(routes[index + 1])
                /\ handlers[index + 1].handler # NoHandler
                /\ routes[index + 1].method = m
                /\ PatMatches(routes[index + 1].path, p)

\* the server runs with two routes and a lookup returns the second one
C4_Witness ==
    /\ srvPhase = "running"
    /\ Len(routes) >= 2
    /\ \E m \in Method, p \in Paths :
          LET f == RouterFind(stRouter, m, p) IN
          /\ f.some
          /\ f.val.handler_index = 1
          /\ handlers[2].handler = routes[2].handler


(***************************************************************************)
(* C2.  Argument binding follows the precedence path params > dependencies *)
(* > request/injected types > form fields > body > query params: every     *)
(* bound name carries the value of the first stage, in that order, that    *)
(* supplies the name, so no later stage overwrites an earlier one - also   *)
(* when the dependency resolver returns a key equal to a path-parameter    *)
(* name.                                                                   *)
(***************************************************************************)
Rank(stage) ==
    CASE stage = "path" -> 1
      [] stage = "dep" -> 2
      [] stage \in {"request", "task", "upload"} -> 3
      [] stage = "form" -> 4
      [] stage = "body" -> 5
      [] OTHER -> 6

\* the stages that supply a value for name n in this request
Suppliers(n) ==
    {st \in {"path", "dep", "request", "task", "upload", "form", "body", "query"} :
        CASE st = "path" -> n \in DOMAIN req.path_params
          [] st = "dep" -> sig.has_depends /\ req.deps.some /\ n \in DOMAIN req.deps.val
          [] st = "request" -> n = "request" /\ n \in sig.param_names /\ ctx # NoCtx
          [] st = "task" ->
                /\ n \in sig.param_names /\ n # "request" /\ n \in DOMAIN sig.param_types
                /\ sig.param_types[n] = "BackgroundTask"
          [] st = "upload" ->
                /\ n \in sig.param_names /\ n # "request" /\ n \in DOMAIN sig.param_types
                /\ sig.param_types[n] = "UploadFile" /\ n \in req.form_files
          [] st = "form" ->
                /\ n \in sig.param_names /\ n # "request"
                /\ n \notin DOMAIN sig.param_types /\ n \in DOMAIN req.form_fields
          [] st = "body" -> n = "body" /\ n \in sig.param_names
          [] OTHER -> n \in sig.param_names /\ n \in DOMAIN query_params_map(sig, req)}

C2_Precedence ==
    pc = "call" =>
        \A n \in DOMAIN kwargs :
            /\ kwargs[n].src \in Suppliers(n)
            /\ \A st \in Suppliers(n) : Rank(kwargs[n].src) <= Rank(st)

(***************************************************************************)
(* Reading the call log.                                                   *)
(***************************************************************************)
IsEv(e, ev) == e.ev = ev
RECURSIVE MwOfEvents(_, _)
\* the middleware indices of the log's events of kind ev, in log order
MwOfEvents(l, ev) ==
    IF l = <<>> THEN <<>>
    ELSE IF IsEv(Head(l), ev)
         THEN <<Head(l).mw>> \o MwOfEvents(Tail(l), ev)
         ELSE MwOfEvents(Tail(l), ev)

HasHook(m, hook) ==
    CASE hook = "before" -> m.before
      [] hook = "after" -> m.after
      [] OTHER -> m.on_error

RECURSIVE HookedFrom(_, _)
\* the middlewares i..Len that have the hook, in registration order
HookedFrom(i, hook) ==
    IF i > Len(middlewares) THEN <<>>
    ELSE IF HasHook(middlewares[i], hook)
         THEN <<i>> \o HookedFrom(i + 1, hook)
         ELSE HookedFrom(i + 1, hook)
Hooked(hook) == HookedFrom(1, hook)

Reverse(s) == [i \in 1..Len(s) |-> s[Len(s) + 1 - i]]
Increasing(s) == \A i, j \in 1..Len(s) : i < j => s[i] < s[j]
Decreasing(s) == \A i, j \in 1..Len(s) : i < j => s[i] > s[j]
IsPrefix(s, t) == Len(s) <= Len(t) /\ \A i \in 1..Len(s) : s[i] = t[i]
HandlerCalled == MwOfEvents(log, "handler") # <<>>

(***************************************************************************)
(* C1.  For every list of registered middlewares and every dispatched      *)
(* request, the before_request hooks are invoked in registration order and *)
(* the after_request hooks in the exact reverse of that order, whatever    *)
(* the number of middlewares and whichever of them lack a hook: the hooks  *)
(* called so far are always a prefix of the hooked middlewares taken       *)
(* forward (before) and backward (after), and a chain that ran to its end  *)
(* called all of them.                                                     *)
(***************************************************************************)
C1_HookOrder ==
    LET b == MwOfEvents(log, "before")
        a == MwOfEvents(log, "after")
    IN /\ IsPrefix(b, Hooked("before"))
       /\ IsPrefix(a, Reverse(Hooked("after")))
       /\ Increasing(b) /\ Decreasing(a)
       /\ pc \in {"bind", "call", "on_error", "after", "normalize"}
              /\ middlewares # <<>> => b = Hooked("before")
       /\ pc = "normalize" /\ middlewares # <<>> => a = Reverse(Hooked("after"))
       /\ pc = "normalize" /\ b = Hooked("before") /\ Hooked("after") = Hooked("before")
              => a = Reverse(b)

\* A, B registered with both hooks: before ran A then B, after ran B then A
C1_Witness ==
    /\ pc = "normalize"
    /\ Len(middlewares) = 2
    /\ \A i \in 1..2 : middlewares[i].before /\ middlewares[i].after
    /\ MwOfEvents(log, "before") = <<1, 2>>
    /\ MwOfEvents(log, "after") = <<2, 1>>

(***************************************************************************)
(* C7.  When the handler invocation fails, the on_error hooks are tried in *)
(* forward registration order, middlewares without an on_error hook are    *)
(* passed over, a hook that returns nothing is followed by the next one,   *)
(* and the first hook that returns a result ends the walk with that        *)
(* result: no later on_error hook is invoked.                              *)
(***************************************************************************)
C7_OnErrorWalk ==
    LET e == MwOfEvents(log, "on_error")
    IN /\ IsPrefix(e, Hooked("on_error"))
       /\ e # <<>> => err # "none"
       \* the walk ended with a result: it is the last hook called
       /\ result.by = "on_error" =>
              /\ e # <<>> /\ result.mw = e[Len(e)]
              /\ pc # "on_error"
       \* the walk ended without a result: every hook was called
       /\ err # "none" /\ result = NoResult /\ pc \in {"returned", "responded"}
              => e = Hooked("on_error")

\* the first hook returned nothing, the second a result, a third was not run
C7_Witness ==
    /\ Len(middlewares) >= 2
    /\ middlewares[1].on_error /\ middlewares[2].on_error
    /\ result.by = "on_error" /\ result.mw = 2
    /\ MwOfEvents(log, "on_error") = <<1, 2>>
    /\ pc = "normalize"

(***************************************************************************)
(* C8.  If a before_request hook fails, the remaining before hooks are not *)
(* run, the handler is not invoked, and the failure is offered to the      *)
(* on_error chain before any response is produced.                         *)
(***************************************************************************)
C8_BeforeFailure ==
    beforeErr # 0 =>
        /\ \A i \in 1..Len(log) : log[i].ev = "before" => log[i].mw <= beforeErr
        /\ ~HandlerCalled
        /\ pc \in {"returned", "responded"}
              => MwOfEvents(log, "on_error") # <<>> \/ Hooked("on_error") = <<>>

(***************************************************************************)
(* C9.  When the handler has a cached body schema and the JSON body of the *)
(* request fails validation against it, dispatch ends with status 422 and  *)
(* an application/json body carrying the validation failure; the handler   *)
(* is never invoked and no after_request hook runs for that request.       *)
(***************************************************************************)
ValidationFails ==
    /\ pydantic_body_model(sig)
    /\ req.is_json /\ req.body = "json" /\ req.validate # "ok"
    /\ beforeErr = 0

C9_ValidationFailure ==
    ValidationFails =>
        /\ ~HandlerCalled
        /\ MwOfEvents(log, "after") = <<>>
        /\ pc = "responded" =>
              /\ response.status = 422
              /\ response.ctype = "application/json"
              /\ response.body = "Validation failed"

(***************************************************************************)
(* C10.  A handler exception that is not a recognized HTTP exception and   *)
(* for which no on_error hook produces a result is surfaced as a 500       *)
(* response with a JSON error body; every request that reaches dispatch    *)
(* receives a response, and the connection task keeps running.             *)
(***************************************************************************)
C10_AlwaysAnswered ==
    /\ err = "generic" /\ result = NoResult /\ pc = "responded" /\ HandlerCalled
          => /\ response.status = 500
             /\ response.ctype = "application/json"
    /\ connAlive
    /\ pc # "panicked"

(***************************************************************************)
(* C5.  When the client has closed the socket (close frame or transport    *)
(* error) while the handler is blocked in recv() with no queued inbound    *)
(* message, recv() eventually returns - by failing with the                *)
(* connection-closed condition - and the handler does not block forever.   *)
(***************************************************************************)
BlockedAfterClose ==
    /\ hState = "in_recv" /\ recvQ = <<>>
    /\ ~clientOpen
    /\ \A i \in 1..Len(inbound) : inbound[i] \notin WsTexts

C5_RecvReturns == BlockedAfterClose ~> hState # "in_recv"

(***************************************************************************)
(* C6.  In a session whose handler calls recv(), then send(x) with the     *)
(* text it received, then returns, a client text frame "ping" yields       *)
(* exactly one outbound text frame "ping": once the session has been torn  *)
(* down the frame is on the wire, once, in every interleaving of handler,  *)
(* write task and teardown.                                                *)
(***************************************************************************)
EchoedPing ==
    /\ hHist = <<Op("recv", "ping"), Op("send", "ping")>>
    /\ hState = "returned"

PingsOnWire == Cardinality({i \in 1..Len(wire) : wire[i] = "ping"})

C6_EchoDelivered ==
    EchoedPing =>
        /\ PingsOnWire <= 1
        /\ session = "done" /\ clientOpen => PingsOnWire = 1

(***************************************************************************)
(* C12.  Each worker thread holds at most one event loop for its whole     *)
(* lifetime: the thread-local loop slot goes from empty to set at most     *)
(* once, and once set no later HTTP or WebSocket dispatch on that thread   *)
(* replaces or clears it.                                                  *)
(***************************************************************************)
C12_LoopSetOnce ==
    [][\A t \in Threads : loopSlot[t].some => loopSlot'[t] = loopSlot[t]]_vars

\* a thread whose slot was filled by one dispatch and reused by the next,
\* which could have created a loop
C12_Witness ==
    \E t \in Threads :
        /\ Len(loopLog) = 2
        /\ loopLog[1].thread = t /\ loopLog[2].thread = t
        /\ ~loopLog[1].before.some /\ loopLog[1].after.some
        /\ loopLog[2].site # loopLog[1].site
        /\ loopSlot[t] = loopLog[1].after
        /\ loopsMade = 1

(***************************************************************************)
(* C11.  When the handler fails with a recognized HTTP exception and no    *)
(* on_error hook supplies a result, the response carries the exception's   *)
(* status code, a JSON body holding its detail and its header overrides;   *)
(* it is not a 500.                                                        *)
(***************************************************************************)
C11_HttpExceptionResponse ==
    (pc = "responded" /\ HandlerCalled /\ err = "http" /\ result = NoResult) =>
        /\ response.status = 404
        /\ response.ctype = "application/json"
        /\ response.body = "detail"
        /\ response.headers = "exception headers"
        /\ response.status # ErrorStatus

(***************************************************************************)
(* C13.  No reactor I/O task ever acquires the interpreter lock or runs    *)
(* handler or middleware code: every lock acquisition (routed dispatch,    *)
(* OPTIONS dispatch, WebSocket upgrade lookup) happens inside a            *)
(* blocking-offload task.                                                  *)
(***************************************************************************)
C13_GilOnlyOffloaded ==
    \A i \in ReqIds :
        reqs[i].pc \in {"want_gil", "has_gil", "in_recv"} => reqs[i].on = "blocking"

(***************************************************************************)
(* C14.  A WebSocket handler blocked in recv() blocks only its own         *)
(* offloaded thread: HTTP requests dispatched on other threads can still   *)
(* acquire the interpreter lock and complete.                              *)
(***************************************************************************)
C14_RecvBlocksOnlyItself ==
    \A i, j \in ReqIds :
        (/\ reqs[i].kind = "ws" /\ reqs[i].pc = "in_recv"
         /\ reqs[j].kind = "routed" /\ reqs[j].pc = "want_gil")
        => ENABLED AcquireGil(j)

(***************************************************************************)
(* C15.  When the WebSocket handler invocation ends for any reason,        *)
(* including by throwing, the session is torn down: the three channel      *)
(* endpoints held by the session task are dropped and the reader and       *)
(* writer tasks terminate.                                                 *)
(***************************************************************************)
TaskEnded(task) == task \in {"done", "aborted"}
TornDown ==
    /\ session = "done"
    /\ "session" \notin (sendSenders \cup recvSenders \cup closeSenders)
    /\ TaskEnded(writer) /\ TaskEnded(reader)

C15_SessionTornDown == (hState = "returned") ~> TornDown

\* a session whose handler ended while both tasks were still running, torn
\* down by the cleanup
C15_Witness ==
    /\ hState = "returned" /\ TornDown
    /\ writer = "aborted" /\ reader = "aborted"
    /\ clientOpen

(***************************************************************************)
(* C16.  When the handler calls close(code), the writer task sends one     *)
(* close frame with that code and then terminates; after the close frame   *)
(* the writer writes nothing more.  Read at the end of the session, with   *)
(* the client still connected: the wire ends with exactly one close frame, *)
(* carrying the code of the handler's first close call.                    *)
(***************************************************************************)
CloseCalls == SelectSeq(hHist, LAMBDA o : o.op = "close")
ServerCloseFrames ==
    {CloseFrameOf(CloseCodeOf(a)) : a \in CloseArgs} \cup {CloseFrameOf(DefaultCloseCode)}
CloseFramesOnWire == {i \in 1..Len(wire) : wire[i] \in ServerCloseFrames}

C16_CloseFrameSent ==
    (/\ session = "done" /\ clientOpen
     /\ CloseCalls # <<>> /\ CloseCalls[1].arg = ToString(1001))
    => /\ wire # <<>>
       /\ wire[Len(wire)] = CloseFrameOf(1001)
       /\ CloseFramesOnWire = {Len(wire)}

(***************************************************************************)
(* C17.  For an upgrade request whose path equals a registered WebSocket   *)
(* route, the 101 response is returned without waiting for the session:    *)
(* the session runs in a detached task that starts only after the upgrade  *)
(* completes, and the response never waits on the handler.  As long as     *)
(* the session task has not passed the upgrade there is no session (no     *)
(* channel, no task, no handler call), and a running session implies that  *)
(* the 101 was returned and written.                                       *)
(***************************************************************************)
C17_ResponseBeforeSession ==
    /\ upSession = "running" => (upResp = "101" /\ upSent)
    /\ upSession # "running" => WsIdle
    /\ upResp = "101" => upSession # "none"
    /\ upResp = "404" => upSession = "none"

\* a session whose handler has made calls, after the 101 was written
C17_Witness ==
    /\ upResp = "101" /\ upSent /\ upSession = "running"
    /\ hHist # <<>>

(***************************************************************************)
(* C18.  For a handler that returns a body and schedules a background      *)
(* task, the client receives the full response before the task's execute   *)
(* operation runs, in every interleaving of the response write and the     *)
(* detached task.                                                          *)
(***************************************************************************)
C18_ResponseBeforeExecute ==
    \A i \in BgIds : bg[i].task = "executed" => bg[i].sent = bg[i].chunks

(***************************************************************************)
(* C19.  A before_request hook that returns nothing leaves the request     *)
(* context unchanged: the next hook and the handler receive the context    *)
(* that was current before that hook ran.  So whatever is called right     *)
(* after a before hook receives either the context that hook received or   *)
(* the object that hook returned, and never the nothing it returned.       *)
(***************************************************************************)
C19_NoneKeepsContext ==
    \A k \in 1..(Len(log) - 1) :
        (log[k].ev = "before" /\ log[k + 1].ev \in {"before", "handler"}) =>
            /\ log[k + 1].arg \in {log[k].arg, HookCtx(log[k].mw)}
            /\ log[k + 1].arg # PyNoneCtx

(***************************************************************************)
(* C20.  After-hooks run, in reverse registration order, for every         *)
(* request on which before-hooks ran, including requests whose handler     *)
(* failed and whose error was passed to the on_error chain.  Read on the   *)
(* answered request whose handler failed and whose error an on_error hook  *)
(* received: the after hooks that were called are all the registered       *)
(* ones, last registered first.                                            *)
(***************************************************************************)
C20_AfterHooksOnError ==
    (/\ pc = "responded"
     /\ MwOfEvents(log, "before") # <<>>
     /\ HandlerCalled /\ err # "none"
     /\ MwOfEvents(log, "on_error") # <<>>)
    => MwOfEvents(log, "after") = Reverse(Hooked("after"))

(***************************************************************************)
(* C21.  Router.insert assigns indices in strictly increasing insertion    *)
(* order starting at 0: for any sequence of inserts across any methods,    *)
(* each returned index is greater than every index returned earlier.  The  *)
(* index the k-th call returns is k - 1, whatever became of the calls      *)
(* before it.                                                              *)
(***************************************************************************)
C21_IndicesIncrease ==
    /\ \A k \in SuccessfulInserts : inserted[k].ret.val = k - 1
    /\ \A j, k \in SuccessfulInserts :
          j < k => inserted[j].ret.val < inserted[k].ret.val

\* three inserts over two methods, the second one refused
C21_Witness ==
    /\ Len(inserted) = 3
    /\ SuccessfulInserts = {1, 3}
    /\ inserted[1].method # inserted[3].method
    /\ inserted[1].ret = Some(0) /\ inserted[3].ret = Some(2)

(***************************************************************************)
(* C22.  Registering the same (method, pattern) route twice produces two   *)
(* distinct indices.                                                       *)
(***************************************************************************)
C22_SameRouteTwice ==
    \A j, k \in 1..Len(inserted) :
        (j < k /\ inserted[j].method = inserted[k].method
               /\ inserted[j].pattern = inserted[k].pattern
               /\ inserted[j].ret.some)
        => /\ inserted[k].ret.some
           /\ inserted[k].ret.val # inserted[j].ret.val

(***************************************************************************)
(* C23.  add_route with a method string that is not one of GET, POST, PUT, *)
(* DELETE, PATCH, HEAD, OPTIONS (compared case-insensitively) fails with   *)
(* an error and leaves the list of registered routes unchanged; with a     *)
(* supported method it appends exactly one route.                          *)
(***************************************************************************)
SupportedNames == {"GET", "POST", "PUT", "DELETE", "PATCH", "HEAD", "OPTIONS"}
CaseInsensitiveNames ==
    [GET |-> {"GET", "get", "Get"}, POST |-> {"POST", "post", "Post"}]
IsSupported(s) ==
    \/ s \in SupportedNames
    \/ \E n \in DOMAIN CaseInsensitiveNames : s \in CaseInsensitiveNames[n]

C23_AddRoute ==
    [][\A s \in MethodStrings, p \in Patterns :
          AddRoute(s, p, NextHandlerId) =>
              IF IsSupported(s)
              THEN /\ addResult' = "Ok"
                   /\ Len(routes') = Len(routes) + 1
                   /\ SubSeq(routes', 1, Len(routes)) = routes
                   /\ routes'[Len(routes')].path = p
                   /\ routes'[Len(routes')].handler = NextHandlerId
              ELSE /\ addResult' = "Err"
                   /\ routes' = routes]_vars

\* a refused call after an accepted one: the list kept its one route
C23_Witness ==
    /\ addResult = "Err"
    /\ Len(routes) = 1
    /\ srvPhase = "configuring"

(***************************************************************************)
(* C24.  A query-string parameter whose name equals a bound path parameter *)
(* is ignored: the handler receives the path-parameter value for that name *)
(* for every request.                                                      *)
(***************************************************************************)
C24_PathBeatsQuery ==
    pc = "call" =>
        \A n \in (DOMAIN req.path_params) \cap (DOMAIN req.query) :
            /\ n \in DOMAIN kwargs
            /\ kwargs[n] = KwPath(sig, req)[n]

(***************************************************************************)
(* C25.  The request body is read only if the matched handler declares a   *)
(* parameter named body, a request context is needed (a middleware is      *)
(* registered or a parameter is named request), or the request is          *)
(* multipart; in every other case no body read happens and the handler     *)
(* sees an empty body.                                                     *)
(***************************************************************************)
C25_BodyReadWhenNeeded ==
    pc # "idle" =>
        /\ bodyRead =>
              \/ "body" \in sig.param_names
              \/ middlewares # <<>> \/ "request" \in sig.param_names
              \/ arrived.is_multipart
        /\ ~bodyRead =>
              /\ req.body = "empty"
              /\ ctx = NoCtx
              /\ "body" \notin DOMAIN kwargs

\* a request that carries a body reaches the call of a handler that takes
\* neither body nor request, with no middleware: the body was not read
C25_Witness ==
    /\ pc = "call"
    /\ arrived.body # "empty" /\ ~arrived.is_multipart
    /\ ~bodyRead
    /\ req.body = "empty"

(***************************************************************************)
(* C26.  Dispatching a request to a synchronous handler never touches the  *)
(* cooperative-scheduler loop: it neither creates the thread-local loop    *)
(* nor submits anything to it.                                             *)
(***************************************************************************)
C26_SyncLeavesLoopAlone ==
    \A k \in 1..Len(loopLog) :
        (loopLog[k].site = "handle_request" /\ ~loopLog[k].is_async) =>
            /\ loopLog[k].after = loopLog[k].before
            /\ ~loopLog[k].submitted

(***************************************************************************)
(* C27.  An OPTIONS request never consults the router, never invokes a     *)
(* handler or a before_request hook, runs only the after_request chain, in *)
(* reverse registration order, over an empty body with status 200, and is  *)
(* answered with status 200 and an empty body.                             *)
(***************************************************************************)
C27_Options ==
    (pc # "idle" /\ arrived.method = "OPTIONS") =>
        /\ \A k \in 1..Len(log) : log[k].ev = "after"
        /\ \A j, k \in 1..Len(log) : j < k => log[j].mw > log[k].mw
        /\ {log[k].mw : k \in 1..Len(log)} =
               {i \in 1..Len(middlewares) : middlewares[i].after}
        /\ upSession = "none"
        /\ response.status = 200 /\ response.body = ""

(***************************************************************************)
(* C28.  Every response the server produces, on every path (routed         *)
(* success, 422, 500, 404, OPTIONS, WebSocket 101), carries a server       *)
(* identification header.                                                  *)
(***************************************************************************)
C28_ServerHeader == response # NoResponse => response.server

(***************************************************************************)
(* C29.  A request that is not an OPTIONS request, and whose method is     *)
(* unsupported or whose method and path match no registered route, is      *)
(* answered with status 404 and a JSON body, and no handler and no         *)
(* middleware hook is invoked for it.  (An upgrade request to the path of  *)
(* a registered WebSocket route matches that route.)                       *)
(***************************************************************************)
WrittenAs(method) ==
    CASE method = "Get" -> CaseInsensitiveNames.GET
      [] method = "Post" -> CaseInsensitiveNames.POST
      [] OTHER -> {}
RouteRegistered(r) ==
    \/ \E k \in 1..Len(routes) :
          r.method \in WrittenAs(routes[k].method) /\ PatMatches(routes[k].path, r.path)
    \/ r.upgrade /\ r.path \in ws_routes

IsPair(v) == v.type = "tuple" /\ Len(v.items) \in {2, 3}
BodyValueOf(v) == IF IsPair(v) THEN v.items[1] ELSE v
TupleHeaders(v) ==
    IF IsPair(v) /\ Len(v.items) = 3 /\ v.items[3].type = "dict"
    THEN Some(v.items[3].entries) ELSE None
OwnHeaders(b) ==
    IF b.headers.type = "dict"
    THEN [k \in {x \in DOMAIN b.headers.entries : b.headers.entries[x] \in HeaderVals}
            |-> b.headers.entries[k]]
    ELSE EmptyMap

C30_ResultNormalized ==
    (pc = "returned" /\ ret.kind = "ok") =>
        LET b == BodyValueOf(result)
            own == IF b.type = "response" THEN OwnHeaders(b) ELSE EmptyMap
            over == TupleHeaders(result)
        IN /\ ret.body = b
           /\ b.type # "response" =>
                 /\ IsPair(result) => ret.status = result.items[2].n
                 /\ result.type # "tuple" => ret.status = 200
                 /\ ret.headers = over
           /\ b.type = "response" =>
                 /\ ret.ctype = b.content_type
                 /\ ret.status = b.status_code
                 /\ (own = EmptyMap /\ ~over.some) => ~ret.headers.some
                 /\ (own # EmptyMap \/ over.some) =>
                       /\ ret.headers.some
                       /\ DOMAIN ret.headers.val =
                              DOMAIN own \cup (IF over.some THEN DOMAIN over.val ELSE {})
                       /\ \A k \in DOMAIN ret.headers.val :
                              ret.headers.val[k] =
                                  IF k \in DOMAIN own THEN own[k] ELSE over.val[k]

\* (body, 201, {"x-a": "t", "x-b": "t"}) whose body is a response object
\* with status 404 and the header x-a: r
C30_Witness ==
    /\ pc = "returned" /\ ret.kind = "ok"
    /\ IsPair(result) /\ Len(result.items) = 3
    /\ result.items[1].type = "response" /\ result.items[1].status_code = 404
    /\ result.items[2] = PyInt(201)
    /\ TupleHeaders(result) = Some([k \in HeaderKeys |-> "t"])
    /\ OwnHeaders(result.items[1]) = [k \in {"x-a"} |-> "r"]
    /\ ret.status = 404
    /\ ret.headers = Some([k \in HeaderKeys |-> IF k = "x-a" THEN "r" ELSE "t"])

(***************************************************************************)
(* C31.  Content-based typing of a result that is not renderable: mapping, *)
(* sequence, boolean and numeric values are serialized by the JSON encoder *)
(* and served as application/json; a text value is served as text/html if  *)
(* it begins with '<' after trimming leading whitespace and as text/plain  *)
(* otherwise; any other value is served as its textual representation with *)
(* text/plain.                                                             *)
(***************************************************************************)
Structured == {"dict", "list", "bool", "int"}
BeginsWithLt == {"<p>", " <p>"}     \* the Texts that begin with '<' once trimmed

C31_ContentTyping ==
    (pc = "returned" /\ ret.kind = "ok" /\ ret.body.type # "response") =>
        /\ ret.body.type \in Structured =>
              ret.via = "json.dumps" /\ ret.ctype = "application/json"
        /\ ret.body.type = "str" =>
              /\ ret.via = "text"
              /\ ret.ctype = IF ret.body.text \in BeginsWithLt
                             THEN "text/html; charset=utf-8"
                             ELSE "text/plain; charset=utf-8"
        /\ ret.body.type \notin Structured \cup {"str"} =>
              ret.via = "str()" /\ ret.ctype = "text/plain; charset=utf-8"

(***************************************************************************)
(* C32.  Query-string parameters are coerced the same way as path          *)
(* parameters: for a parameter with a declared type the outcome of binding *)
(* a given raw text (the coerced value, or the failure of the request) is  *)
(* the same whether the text arrived as a path segment or as a query       *)
(* value, and without a declared type the raw text is bound.  A path       *)
(* segment that cannot be coerced fails the request, so a handler that is  *)
(* called with an argument taken from the query string is called with the  *)
(* coerced value.                                                          *)
(***************************************************************************)
C32_QueryCoercedLikePath ==
    pc = "call" =>
        \A n \in DOMAIN kwargs :
            kwargs[n].src = "query" =>
                IF n \in DOMAIN sig.param_types
                THEN /\ Coerce(sig.param_types[n], req.query[n]).some
                     /\ kwargs[n].val = Coerce(sig.param_types[n], req.query[n]).val
                ELSE kwargs[n].val = Text(req.query[n])

(***************************************************************************)
(* C33.  A process-wide interrupt signal makes the server stop accepting   *)
(* new connections, run the registered shutdown handlers to completion and *)
(* then exit, so run() eventually returns; requests in flight at that      *)
(* moment are not cancelled.  Stated here in the form a finite run can     *)
(* refute: once the signal has been delivered no further connection is     *)
(* accepted, and no request in flight is dropped.                          *)
(***************************************************************************)
C33_InterruptStopsAccepting ==
    [][interrupted =>
          \A c \in 1..MaxConns :
              /\ conns[c] = "none" => conns'[c] = "none"
              /\ conns[c] = "in_flight" => conns'[c] \in {"in_flight", "open"}]_vars

(***************************************************************************)
(* C34.  Failure handling does not depend on whether the handler is        *)
(* synchronous or asynchronous: an error raised by an asynchronous handler *)
(* while its pending computation is driven to completion is offered to the *)
(* on_error chain and, if it is an HTTP exception, translated to its       *)
(* status, exactly as for a synchronous handler.  Read on the answered     *)
(* request: where a request object and an on_error hook exist a hook was   *)
(* called, and an HTTP exception no hook answered gave its own status.     *)
(***************************************************************************)
RaisedInAwait == {k \in 1..Len(log) : log[k].ev = "raised"}

C34_AsyncFailuresAlike ==
    (pc = "responded" /\ RaisedInAwait # {}) =>
        /\ (ctx # NoCtx /\ Hooked("on_error") # <<>>) =>
               MwOfEvents(log, "on_error") # <<>>
        /\ (\E k \in RaisedInAwait : log[k].arg.kind = "http") /\ result = NoResult =>
               response.status = 404

(***************************************************************************)
(* C35.  In a WebSocket session the sequence of values returned by         *)
(* successive recv() calls is a prefix of the sequence of inbound text     *)
(* frames in arrival order: each text frame is delivered at most once,     *)
(* none is reordered, and frames that are not text are never delivered.    *)
(***************************************************************************)
RecvReturned ==
    LET calls == SelectSeq(hHist, LAMBDA o : o.op = "recv" /\ o.arg # ConnectionClosed)
    IN [k \in 1..Len(calls) |-> calls[k].arg]
TextFramesArrived == SelectSeq(clientSent, IsTextFrame)

C35_RecvInArrivalOrder == IsPrefix(RecvReturned, TextFramesArrived)

\* a binary frame arrived, then pong, and recv() returned pong
C35_Witness ==
    /\ clientSent = <<BinaryFrame, "pong">>
    /\ RecvReturned = <<"pong">>

(***************************************************************************)
(* C36.  In a WebSocket session every text message that the handler passed *)
(* to send() before calling close() is written to the socket before the    *)
(* close frame: the writer never emits the close frame while an            *)
(* earlier-enqueued outbound message is still pending.                     *)
(***************************************************************************)
SentBeforeClose ==
    LET closes == {k \in 1..Len(hHist) : hHist[k].op = "close"}
        first == CHOOSE k \in closes : \A j \in closes : k <= j
        sends == SelectSeq(SubSeq(hHist, 1, first - 1), LAMBDA o : o.op = "send")
    IN [k \in 1..Len(sends) |-> sends[k].arg]

C36_SendsBeforeCloseFrame ==
    (/\ \E k \in 1..Len(hHist) : hHist[k].op = "close"
     /\ CloseFramesOnWire # {}
     /\ clientOpen)
    => \A j \in CloseFramesOnWire : IsPrefix(SentBeforeClose, SubSeq(wire, 1, j - 1))

(***************************************************************************)
(* C37.  In a WebSocket session the sequence of text frames written to the *)
(* socket is a prefix of the sequence of messages passed to send(), in the *)
(* same order and without duplicates, and send() never blocks or fails,    *)
(* even after the writer has terminated.                                   *)
(***************************************************************************)
SendCalls ==
    LET sends == SelectSeq(hHist, LAMBDA o : o.op = "send")
    IN [k \in 1..Len(sends) |-> sends[k].arg]
TextsOnWire == SelectSeq(wire, LAMBDA f : f \in OrderTexts)

C37_WireIsPrefixOfSends ==
    /\ IsPrefix(TextsOnWire, SendCalls)
    /\ (hState = "running" /\ Len(hHist) < MaxHandlerOps) =>
           \A t \in OrderTexts : ENABLED HandlerSend(t)

\* pong then ping were sent and written in that order, and a third send
\* was made after the writer had ended
C37_Witness ==
    /\ SendCalls = <<"pong", "ping", "pong">>
    /\ TextsOnWire = <<"pong", "ping">>
    /\ ~WriterAlive

(***************************************************************************)
(* C38.  If coercing a path parameter to its declared type fails, the      *)
(* handler is never invoked, no on_error hook and no after_request hook is *)
(* run, and the request is answered with status 500, even though the       *)
(* before_request hooks have already run.                                  *)
(***************************************************************************)
PathParamNotAnInt ==
    \E k \in DOMAIN req.path_params :
        /\ k \in DOMAIN sig.param_types
        /\ sig.param_types[k] = "int"
        /\ req.path_params[k] = "abc"
RanAny(evs) == \E k \in 1..Len(log) : log[k].ev \in evs

C38_PathCoercionFailure ==
    PathParamNotAnInt =>
        /\ ~RanAny({"handler", "on_error", "after"})
        /\ pc \in {"responded", "panicked"} => (pc = "responded" /\ response.status = 500)

\* every before_request hook of two middlewares ran, the coercion failed
\* and the 500 was written
C38_Witness ==
    /\ PathParamNotAnInt
    /\ pc = "responded"
    /\ response.status = 500
    /\ beforeErr = 0
    /\ Len(middlewares) = 2
    /\ \A i \in 1..2 : \E k \in 1..Len(log) : log[k].ev = "before" /\ log[k].mw = i

(***************************************************************************)
(* C39.  For one request the handler is invoked at most once and a         *)
(* background task is executed at most once; a background task is          *)
(* scheduled only when dispatch returned a normalized handler result,      *)
(* never when the request ended in a 422 validation response, an           *)
(* HTTP-exception response or a 500.                                       *)
(***************************************************************************)
HandlerCalls == Cardinality({k \in 1..Len(log) : log[k].ev = "handler"})
TaskScheduled == bg[1].task # "none"
NormalizedResult ==
    /\ ret.kind = "ok"
    /\ ret.body = "result"
    /\ ret.status = StatusOf(result.kind)
    /\ result # NoResult

C39_HandlerAndTaskOnce ==
    /\ [](HandlerCalls <= 1)
    /\ [](TaskScheduled =>
            /\ NormalizedResult
            /\ response.status = ret.status
            /\ ret # ValidationFailed(None)
            /\ ret.body # "detail"
            /\ response.status # ErrorStatus)
    /\ [][bg[1].task = "executed" => bg'[1].task = "executed"]_vars
    /\ [][bg'[1].task = "executed" /\ bg[1].task # "executed" => bg[1].task = "due"]_vars

\* the handler got a task injected and returned, the response went out
\* and the task was executed
C39_Witness ==
    /\ HandlerCalls = 1
    /\ injected_task = Some("task")
    /\ pc = "responded"
    /\ bg[1].task = "executed"

\* a request that failed validation, answered 422 with nothing scheduled
C39_WitnessRejected ==
    /\ injected_task = None
    /\ response.status = 422
    /\ bg[1] # NoBg /\ bg[1].task = "none"

=============================================================================
